---- MODULE Spec2Model ----
(***************************************************************************)
(* A model of the assessment orchestrator of the WAF review backend        *)
(* (backend/app/analysis/orchestrator.py): the lifecycle coroutine         *)
(* run_assessment_lifecycle with its progress notifications, the pillar    *)
(* executor it awaits, the two gathered task pairs, and the pure helpers   *)
(* it calls (conflict detection, recommendation synthesis, semantic        *)
(* deduplication, section truncation).                                     *)
(***************************************************************************)
EXTENDS Integers, Sequences, FiniteSets, TLC

VARIABLES
    \* ---- AssessmentOrchestrator and one run of run_assessment_lifecycle
    current_state,      \* self.current_state
    pc,                 \* the await at which the lifecycle coroutine is suspended
    runs,               \* number of run_assessment_lifecycle calls made so far
    has_callback,       \* progress_callback is not None
    notified,           \* percents passed to progress_callback in this run
    executor_raises,    \* the supplied pillar_executor propagates a pillar's failure
    exec_calls,         \* calls of pillar_executor made by this run
    exec_status,        \* the awaited pillar_executor call: idle, running, returned, raised
    pending,            \* pillars the executor is still evaluating
    failed,             \* pillars whose evaluation failed
    exec_results,       \* results the executor has collected, in completion order
    corpus,             \* local corpus: "none" until create_unified_corpus returned
    pillar_results,     \* local pillar_results (what the executor returned)
    conflicts_task,     \* task of detect_cross_pillar_conflicts
    min_duration_task,  \* asyncio.sleep(2.5) task of phase 5
    cohesive_task,      \* task of generate_cohesive_recommendations
    min_duration_task6, \* asyncio.sleep(2.5) task of phase 6
    conflicts,          \* local conflicts
    cohesive_recs,      \* local cohesive_recs (references into heap)
    heap,               \* recommendation dicts by object identity
    \* ---- a call of _dedupe_semantic_recommendations(recs)
    dedupe_pc,          \* "off", "called", "returned" or "raised"
    dedupe_recs,        \* the argument recs: a list of recommendation dicts
    embedding,          \* what the embedding layer does in this call
    dedupe_kept,        \* the list returned (kept)
    \* ---- direct calls of detect_cross_pillar_conflicts and
    \*      generate_cohesive_recommendations on the same pillar results
    synth_pc,           \* "off", "start", "detected", "synthesized" or "raised"
    synth_heap,         \* recommendation dicts by object identity
    synth_input,        \* the dicts as they were when the calls began
    synth_results,      \* the argument pillar_results
    synth_conflicts,    \* what detect_cross_pillar_conflicts returned
    synth_all_recs,     \* all_recs of generate_cohesive_recommendations
    synth_cohesive,     \* what generate_cohesive_recommendations returned
    \* ---- a call of _safe_truncate_corpus_section(section_text, max_tokens)
    truncate_pc,        \* "off", "called" or "returned"
    section_text,       \* the argument: a sequence of characters
    max_tokens,         \* the argument
    truncated,          \* the text returned
    \* ---- two constructions of UnifiedReviewCorpus
    build_pc,           \* "off", "start", "first" or "both"
    build_args,         \* the arguments of the first and of the second construction
    hash_seed,          \* the string hash seed of the process of each construction
    built,              \* full_corpus of the first and of the second object
    \* ---- the pillar context built by create_unified_corpus
    ctx_pc,             \* "off", "called" or "returned"
    ctx_analysis,       \* pillar_signals of each analysis result, in the order of analysis_results
    ctx_evidence,       \* what collect_and_infer_pillar_evidence returned
    ctx_result,         \* pillar_context of the corpus returned
    \* ---- a call of compute_pillar_scores(architecture_text, pillar)
    pillar_pc,          \* "off", "called", "returned" or "raised"
    pillar_module,      \* the scoring module called: "src" or "backend"
    pillar_data,        \* the pillar definition load_pillar returns
    architecture_text,  \* the argument: a sequence of characters
    pillar_scores,      \* the PillarScores returned
    \* ---- _score_practice on a text and on a text matching one more signal
    practice_pc,        \* "off", "start", "first", "both" or "raised"
    practice_module,    \* the scoring module called: "src" or "backend"
    scored_practice,    \* the practice definition
    practice_texts,     \* the two texts
    practice_results,    \* the PracticeScore of each text scored so far
    \* ---- a call of _phrase_present(text, phrase)
    phrase_pc,          \* "off", "called" or "returned"
    match_text,         \* the argument text: a sequence of characters
    match_phrase,       \* the argument phrase: a sequence of characters
    phrase_found,       \* the boolean returned
    \* ---- _compute_multi_section_maturity on a list of sections and on a reordering of it
    multi_pc,           \* "off", "scoring", "aggregated" or "done"
    section_percents,   \* per section in the first order, the overall_maturity_percent (hundredths) the scoring engine reports for it
    section_order,      \* the second call gets section section_order[i] at position i
    engine_calls,       \* calls of compute_pillar_scores made by the call in hand
    overall_percents,   \* overall_percents of the call in hand, as doubles
    multi_results,      \* per call finished: [calls, overall_maturity_percent (hundredths)]
    \* ---- concurrent embed and chat calls on one LLMProvider
    provider_settings,  \* the AzureOpenAISettings fields read, and whether a client was injected
    embed_cache,        \* self._embed_cache: digest -> vector
    sem_free,           \* free permits of self._sem
    provider_calls,     \* per call: its position, arguments, locals and what it sent and returned
    embed_obtained,     \* history: text -> the vector embed last obtained for it
    provider_bucket,    \* self._bucket, the provider's TokenBucket
    tokens_granted,     \* history: how many times self._bucket.consume() returned True
    \* ---- a TokenBucket and the consume calls made on it
    token_bucket,       \* the bucket: rate, capacity and tokens, the last two in units of 1/TokenUnits token
    consume_calls,      \* consume calls made so far
    last_consume,       \* the last call: elapsed ticks, amount, tokens before it, and what it returned
    \* ---- call of _filter_legacy_sections
    filter_pc,          \* position of the call: off, called, returned
    enable_legacy,      \* os.getenv("ENABLE_LEGACY_SECTIONS"): <<>> when unset, <<value>> otherwise
    corpus_text,        \* the text argument, a sequence of characters
    filtered_text,      \* the text returned
    \* ---- stored assessment and a request of its progress
    mongo_db,           \* whether a MongoDB reference is set (mongo_db is not None)
    assessment,         \* the stored assessment dict: progress, current_phase, pillar_statuses, pillar_progress
    progress_response   \* the answer of get_enhanced_progress: <<>> before the request

lifecycleVars == <<current_state, pc, runs, has_callback, notified, executor_raises,
                   exec_calls, exec_status, pending, failed, exec_results, corpus,
                   pillar_results, conflicts_task, min_duration_task, cohesive_task,
                   min_duration_task6, conflicts, cohesive_recs, heap>>

dedupeVars == <<dedupe_pc, dedupe_recs, embedding, dedupe_kept>>

synthVars == <<synth_pc, synth_heap, synth_input, synth_results, synth_conflicts,
               synth_all_recs, synth_cohesive>>

truncateVars == <<truncate_pc, section_text, max_tokens, truncated>>

buildVars == <<build_pc, build_args, hash_seed, built>>

contextVars == <<ctx_pc, ctx_analysis, ctx_evidence, ctx_result>>

pillarVars == <<pillar_pc, pillar_module, pillar_data, architecture_text, pillar_scores>>

practiceVars == <<practice_pc, practice_module, scored_practice, practice_texts, practice_results>>

phraseVars == <<phrase_pc, match_text, match_phrase, phrase_found>>

sectionsVars == <<multi_pc, section_percents, section_order, engine_calls, overall_percents, multi_results>>

providerVars == <<provider_settings, embed_cache, sem_free, provider_calls, embed_obtained, provider_bucket, tokens_granted>>

bucketVars == <<token_bucket, consume_calls, last_consume>>

filterVars == <<filter_pc, enable_legacy, corpus_text, filtered_text>>

progressVars == <<mongo_db, assessment, progress_response>>

vars == <<lifecycleVars, dedupeVars, synthVars, truncateVars, buildVars, contextVars, pillarVars, practiceVars, phraseVars, sectionsVars, providerVars, bucketVars, filterVars, progressVars>>

\* what the actions of one part leave alone
otherThanLifecycle == <<dedupeVars, synthVars, truncateVars, buildVars, contextVars, pillarVars, practiceVars, phraseVars, sectionsVars, providerVars, bucketVars, filterVars, progressVars>>
otherThanDedupe == <<lifecycleVars, synthVars, truncateVars, buildVars, contextVars, pillarVars, practiceVars, phraseVars, sectionsVars, providerVars, bucketVars, filterVars, progressVars>>
otherThanSynth == <<lifecycleVars, dedupeVars, truncateVars, buildVars, contextVars, pillarVars, practiceVars, phraseVars, sectionsVars, providerVars, bucketVars, filterVars, progressVars>>
otherThanTruncate == <<lifecycleVars, dedupeVars, synthVars, buildVars, contextVars, pillarVars, practiceVars, phraseVars, sectionsVars, providerVars, bucketVars, filterVars, progressVars>>
otherThanBuild == <<lifecycleVars, dedupeVars, synthVars, truncateVars, contextVars, pillarVars, practiceVars, phraseVars, sectionsVars, providerVars, bucketVars, filterVars, progressVars>>
otherThanContext == <<lifecycleVars, dedupeVars, synthVars, truncateVars, buildVars, pillarVars, practiceVars, phraseVars, sectionsVars, providerVars, bucketVars, filterVars, progressVars>>
otherThanPillar == <<lifecycleVars, dedupeVars, synthVars, truncateVars, buildVars, contextVars, practiceVars, phraseVars, sectionsVars, providerVars, bucketVars, filterVars, progressVars>>
otherThanPractice == <<lifecycleVars, dedupeVars, synthVars, truncateVars, buildVars, contextVars, pillarVars, phraseVars, sectionsVars, providerVars, bucketVars, filterVars, progressVars>>
otherThanPhrase == <<lifecycleVars, dedupeVars, synthVars, truncateVars, buildVars, contextVars, pillarVars, practiceVars, sectionsVars, providerVars, bucketVars, filterVars, progressVars>>
otherThanSections == <<lifecycleVars, dedupeVars, synthVars, truncateVars, buildVars, contextVars, pillarVars, practiceVars, phraseVars, providerVars, bucketVars, filterVars, progressVars>>
otherThanProvider == <<lifecycleVars, dedupeVars, synthVars, truncateVars, buildVars, contextVars, pillarVars, practiceVars, phraseVars, sectionsVars, bucketVars, filterVars, progressVars>>
otherThanBucket == <<lifecycleVars, dedupeVars, synthVars, truncateVars, buildVars, contextVars, pillarVars, practiceVars, phraseVars, sectionsVars, providerVars, filterVars, progressVars>>
otherThanFilter == <<lifecycleVars, dedupeVars, synthVars, truncateVars, buildVars, contextVars, pillarVars, practiceVars, phraseVars, sectionsVars, providerVars, bucketVars, progressVars>>
otherThanProgress == <<lifecycleVars, dedupeVars, synthVars, truncateVars, buildVars, contextVars, pillarVars, practiceVars, phraseVars, sectionsVars, providerVars, bucketVars, filterVars>>

(***************************************************************************)
(* Bounds of the model.                                                    *)
(***************************************************************************)
\* pillars the supplied executor evaluates
NumPillars == 2
\* run_assessment_lifecycle calls made on one orchestrator
MaxRuns == 2
\* recommendations passed to one call of _dedupe_semantic_recommendations
MaxRecs == 3
\* recommendations of one pillar in a direct call of conflict detection
MaxPillarRecs == 2
\* characters of a section text passed to _safe_truncate_corpus_section
MaxTextLen == 6
\* largest max_tokens passed to _safe_truncate_corpus_section
MaxBudget == 1
\* components in the inventory passed to UnifiedReviewCorpus
MaxInventory == 2
\* excerpts of one pillar returned by collect_and_infer_pillar_evidence
MaxExcerpts == 2
\* practices of a pillar definition
MaxPractices == 2
\* largest weight of a practice
MaxWeight == 2
\* characters of a text and of a signal phrase handed to _phrase_present
MaxMatchLen == 4
MaxPhraseLen == 2
\* sections given to _compute_multi_section_maturity
MaxSections == 4
\* largest retry_attempts of the provider's settings
MaxRetries == 2
\* units of a token, and ticks of a second
TokenUnits == 2
\* largest rate and capacity a TokenBucket is built with, in tokens
MaxRate == 2
MaxCapacity == 2
\* consume calls on one bucket, the ticks between two of them, and the amount of one
MaxConsumes == 3
MaxElapsed == 3
MaxAmount == 2
\* characters of the text passed to _filter_legacy_sections
MaxCorpusLen == 5
\* largest advance of the stored progress in one update
MaxAdvance == 3

(***************************************************************************)
(* AssessmentState                                                         *)
(***************************************************************************)
\* NEW is a reserved word of TLA+
StateNEW == "new"
REGISTERED == "pending"
PREPROCESSING == "preprocessing"
ACTIVE_ANALYSIS == "analyzing"
CROSS_PILLAR_ALIGNMENT == "aligning"
COMPLETED == "completed"
FAILED == "failed"

AssessmentState ==
    {StateNEW, REGISTERED, PREPROCESSING, ACTIVE_ANALYSIS, CROSS_PILLAR_ALIGNMENT,
     COMPLETED, FAILED}

\* declaration order of the lifecycle states
StateOrder ==
    <<StateNEW, REGISTERED, PREPROCESSING, ACTIVE_ANALYSIS, CROSS_PILLAR_ALIGNMENT, COMPLETED>>

Rank(s) == CHOOSE i \in 1..Len(StateOrder) : StateOrder[i] = s


(***************************************************************************)
(* Text.  A text is a sequence of words separated by single blanks; what   *)
(* the code does with characters (lower(), `k in text`, isalpha()) is      *)
(* given per word of the vocabulary.                                       *)
(***************************************************************************)
\* str.lower() of a word
Lower(w) ==
    CASE w = "Reduce" -> "reduce"
      [] w = "Enable" -> "enable"
      [] OTHER -> w

LowerText(t) == [i \in 1..Len(t) |-> Lower(t[i])]

\* str.isalpha() of a word
IsAlpha(w) == w \notin {"ci/cd", "multi-region", "24x7"}

\* <<k, w>>: k occurs at the start of the longer word w
ProperPrefixes == {<<"reduce", "reduced">>, <<"down", "downsize">>, <<"encrypt", "encryption">>}

\* <<k, w>>: k occurs at the end of the longer word w
ProperSuffixes == {<<"iac", "maniac">>}

PrefixOf(k, w) == k = w \/ <<k, w>> \in ProperPrefixes
SuffixOf(k, w) == k = w \/ <<k, w>> \in ProperSuffixes
SubstringOf(k, w) == PrefixOf(k, w) \/ SuffixOf(k, w)

\* `k in text` for a keyword k of one or more words
KeywordIn(k, text) ==
    \E i \in 1..(Len(text) - Len(k) + 1) :
        \A j \in 1..Len(k) :
            LET w == text[i + j - 1] IN
            IF Len(k) = 1 THEN SubstringOf(k[j], w)
            ELSE IF j = 1 THEN SuffixOf(k[j], w)
            ELSE IF j = Len(k) THEN PrefixOf(k[j], w)
            ELSE k[j] = w

\* any(k in text for k in keywords)
AnyKeywordIn(keywords, text) == \E k \in keywords : KeywordIn(k, text)

(***************************************************************************)
(* Recommendations live on a heap: a sequence of dicts, a reference being  *)
(* the index of the dict.  A missing key holds Absent.                     *)
(***************************************************************************)
Absent == "<absent>"

\* a recommendation dict as a pillar agent produces it
NewRec(title, reasoning) ==
    [title |-> title, reasoning |-> reasoning,
     source_pillar |-> Absent, cross_pillar_considerations |-> <<>>]

\* (rec.get("title", "") + " " + rec.get("reasoning", "")).lower()
RecText(h, ref) == LowerText(h[ref].title \o h[ref].reasoning)

COST == "Cost Optimization"
RELIABILITY == "Reliability"
SECURITY == "Security"
PERFORMANCE == "Performance Efficiency"
OPERATIONAL == "Operational Excellence"

PillarNames == <<COST, RELIABILITY, OPERATIONAL, SECURITY, PERFORMANCE>>

CostKeywords == {<<"reduce">>, <<"downsize">>, <<"lower", "tier">>, <<"scale", "down">>}
ReliabilityKeywords == {<<"redundancy">>, <<"replica">>, <<"multi-region">>, <<"failover">>}
SecurityKeywords == {<<"encrypt">>, <<"authentication">>, <<"firewall">>, <<"inspection">>}
PerformanceKeywords == {<<"latency">>, <<"faster">>, <<"reduce", "overhead">>}
OperationalKeywords == {<<"automation">>, <<"ci/cd">>, <<"pipeline">>, <<"iac">>}
EnrichKeywords ==
    {<<"cost">>, <<"reduce">>, <<"downsize">>, <<"encrypt">>, <<"security">>, <<"latency">>}

CostVsReliability ==
    [type |-> "cost_vs_reliability", pillar_a |-> COST, pillar_b |-> RELIABILITY,
     description |-> "Cost reduction measures may undermine availability targets",
     mitigation |-> "Prioritize cost optimization in non-critical paths; preserve redundancy for critical flows"]

SecurityVsPerformance ==
    [type |-> "security_vs_performance", pillar_a |-> SECURITY, pillar_b |-> PERFORMANCE,
     description |-> "Security hardening may introduce performance overhead",
     mitigation |-> "Use Azure-native security services with performance optimization (e.g., Azure Front Door with WAF)"]

OperationalEnabler ==
    [type |-> "operational_enabler", pillar_a |-> OPERATIONAL, pillar_b |-> "All Pillars",
     description |-> "Automation and IaC improvements enable better outcomes across all pillars",
     mitigation |-> "Prioritize operational excellence as foundational capability"]

\* recs_by_pillar.get(name, []): a later result of the same pillar replaces an earlier one
RecsByPillar(prs, name) ==
    LET idx == {i \in 1..Len(prs) : prs[i].pillar = name} IN
    IF idx = {} THEN <<>>
    ELSE prs[CHOOSE i \in idx : \A j \in idx : j <= i].recommendations

\* The nested scan of two pillars: one conflict per rec of the first pillar that
\* matches keysA, provided some rec of the second pillar matches keysB (the
\* break leaves the inner loop only).
RECURSIVE PairScan(_, _, _, _, _, _)
PairScan(h, recsA, keysA, recsB, keysB, conflict) ==
    IF recsA = <<>> THEN <<>>
    ELSE LET hit == /\ AnyKeywordIn(keysA, RecText(h, Head(recsA)))
                    /\ \E i \in 1..Len(recsB) : AnyKeywordIn(keysB, RecText(h, recsB[i]))
         IN (IF hit THEN <<conflict>> ELSE <<>>)
            \o PairScan(h, Tail(recsA), keysA, recsB, keysB, conflict)

\* The scan of the operational recs: stops at the first match.
EnablerScan(h, recs) ==
    IF \E i \in 1..Len(recs) : AnyKeywordIn(OperationalKeywords, RecText(h, recs[i]))
    THEN <<OperationalEnabler>>
    ELSE <<>>

\* detect_cross_pillar_conflicts: reads the heap, returns the conflicts
detect_cross_pillar_conflicts(h, prs) ==
    PairScan(h, RecsByPillar(prs, COST), CostKeywords,
             RecsByPillar(prs, RELIABILITY), ReliabilityKeywords, CostVsReliability)
    \o PairScan(h, RecsByPillar(prs, SECURITY), SecurityKeywords,
                RecsByPillar(prs, PERFORMANCE), PerformanceKeywords, SecurityVsPerformance)
    \o EnablerScan(h, RecsByPillar(prs, OPERATIONAL))

(***************************************************************************)
(* _dedupe_semantic_recommendations                                        *)
(***************************************************************************)
\* the similarity threshold 0.90, as a fraction
ThresholdNum == 90
ThresholdDen == 100

\* Vectors hold integers: a cosine does not change when a vector is scaled, so
\* the L2-normalised floats of the code compare as their integer counts do.
RECURSIVE SumTo(_, _)
SumTo(f, n) == IF n = 0 THEN 0 ELSE f[n] + SumTo(f, n - 1)

MinOf(a, b) == IF a <= b THEN a ELSE b

\* sum(x*y for x, y in zip(a, b)): zip stops at the shorter vector
Dot(a, b) == SumTo([i \in 1..MinOf(Len(a), Len(b)) |-> a[i] * b[i]], MinOf(Len(a), Len(b)))

\* sum(x*x for x in a), with the `or 1.0` of a zero norm
NormSq(a) == LET q == SumTo([i \in 1..Len(a) |-> a[i] * a[i]], Len(a)) IN IF q = 0 THEN 1 ELSE q

\* _cos(a, b) > num/den, for num/den >= 0, in exact arithmetic
CosExceeds(a, b, num, den) ==
    /\ Dot(a, b) > 0
    /\ den * den * Dot(a, b) * Dot(a, b) > num * num * NormSq(a) * NormSq(b)

\* (title + " \n" + reasoning).strip(), as words
Combined(rec) == rec.title \o rec.reasoning

\* [tok for tok in c.lower().split() if tok.isalpha()]
Tokenize(c) == SelectSeq(LowerText(c), IsAlpha)

\* vocab after the tokens of one text are added: each new token gets the next index
RECURSIVE AddToVocab(_, _)
AddToVocab(vocab, toks) ==
    IF toks = <<>> THEN vocab
    ELSE AddToVocab(IF \E k \in 1..Len(vocab) : vocab[k] = Head(toks)
                    THEN vocab ELSE Append(vocab, Head(toks)),
                    Tail(toks))

RECURSIVE BuildVocab(_, _)
BuildVocab(vocab, combined) ==
    IF combined = <<>> THEN vocab
    ELSE BuildVocab(AddToVocab(vocab, Tokenize(Head(combined))), Tail(combined))

CountOf(tok, toks) == Cardinality({i \in 1..Len(toks) : toks[i] = tok})

\* the bag-of-words fallback: one count vector per text over the shared vocabulary
BagOfWords(combined) ==
    LET vocab == BuildVocab(<<>>, combined) IN
    [i \in 1..Len(combined) |->
        [k \in 1..Len(vocab) |-> CountOf(vocab[k], Tokenize(combined[i]))]]

\* The vectors the greedy pass runs on.  emb is what the embedding layer does:
\*   has_provider, loop_running, embed_raises, embed_vectors (LLMProvider.embed),
\*   legacy_available, legacy_vectors (the direct OpenAI client).
SelectVectors(combined, emb) ==
    LET fromProvider ==
            IF emb.has_provider /\ ~emb.loop_running /\ ~emb.embed_raises
            THEN emb.embed_vectors ELSE <<>>
        fromLegacy ==
            IF fromProvider # <<>> THEN fromProvider
            ELSE IF emb.legacy_available THEN emb.legacy_vectors ELSE <<>>
    IN IF fromLegacy # <<>> THEN fromLegacy ELSE BagOfWords(combined)

\* is_duplicate: vec is closer than the threshold to some representative
IsDuplicate(vec, rep_vectors) ==
    \E r \in 1..Len(rep_vectors) : CosExceeds(vec, rep_vectors[r], ThresholdNum, ThresholdDen)

\* a variant that makes every vector a representative, duplicates too
NextRepsAll(rep_vectors, vec, is_duplicate) == Append(rep_vectors, vec)

\* rep_vectors after rec idx was handled
NextReps(rep_vectors, vec, is_duplicate) ==
    IF is_duplicate THEN rep_vectors ELSE Append(rep_vectors, vec)

\* The greedy loop from index idx on: the indices kept, or IndexError when
\* vectors[idx] does not exist.
RECURSIVE GreedyPass(_, _, _, _, _)
GreedyPass(vectors, n, idx, kept, rep_vectors) ==
    IF idx > n THEN [raised |-> FALSE, kept |-> kept]
    ELSE IF idx > Len(vectors) THEN [raised |-> TRUE, kept |-> <<>>]
    ELSE LET dup == IsDuplicate(vectors[idx], rep_vectors) IN
         GreedyPass(vectors, n, idx + 1,
                    IF dup THEN kept ELSE Append(kept, idx),
                    NextReps(rep_vectors, vectors[idx], dup))

\* _dedupe_semantic_recommendations on a list of recommendation dicts:
\* [raised, kept]: whether it raised, and the indices of recs it returns
DedupeIndices(recs, emb) ==
    IF recs = <<>> THEN [raised |-> FALSE, kept |-> <<>>]
    ELSE GreedyPass(SelectVectors([i \in 1..Len(recs) |-> Combined(recs[i])], emb),
                    Len(recs), 1, <<>>, <<>>)

\* the list returned: the kept elements of recs themselves
_dedupe_semantic_recommendations(recs, emb) ==
    LET d == DedupeIndices(recs, emb) IN
    [raised |-> d.raised, kept |-> [i \in 1..Len(d.kept) |-> recs[d.kept[i]]]]

(***************************************************************************)
(* generate_cohesive_recommendations                                       *)
(***************************************************************************)
\* every (pillar, rec) of the results, in order
RECURSIVE FlattenRecs(_)
FlattenRecs(prs) ==
    IF prs = <<>> THEN <<>>
    ELSE [i \in 1..Len(Head(prs).recommendations) |->
            [pillar |-> Head(prs).pillar, ref |-> Head(prs).recommendations[i]]]
         \o FlattenRecs(Tail(prs))

\* a variant without the copy: all_recs holds the caller's dicts themselves
CopyRecAliased(h, ref) == [heap |-> h, ref |-> ref]

\* rec.copy(): a new dict with the same items
CopyRec(h, ref) == [heap |-> Append(h, h[ref]), ref |-> Len(h) + 1]

\* the loop that fills all_recs
RECURSIVE CollectRecs(_, _, _)
CollectRecs(h, pairs, all_recs) ==
    IF pairs = <<>> THEN [heap |-> h, all_recs |-> all_recs]
    ELSE LET c == CopyRec(h, Head(pairs).ref) IN
         CollectRecs([c.heap EXCEPT ![c.ref].source_pillar = Head(pairs).pillar],
                     Tail(pairs), Append(all_recs, c.ref))

\* the f-string of one consideration
Consideration(conf) == <<"!", conf.description, "-", conf.mitigation>>

\* related_conflicts of one rec
RelatedConflicts(h, ref, confs) ==
    LET Related(conf) ==
            /\ conf.type \in {"cost_vs_reliability", "security_vs_performance"}
            /\ h[ref].source_pillar \in {conf.pillar_a, conf.pillar_b}
            /\ AnyKeywordIn(EnrichKeywords, RecText(h, ref))
    IN SelectSeq(confs, Related)

\* the enrichment loop over all_recs
RECURSIVE EnrichRecs(_, _, _)
EnrichRecs(h, refs, confs) ==
    IF refs = <<>> THEN h
    ELSE LET related == RelatedConflicts(h, Head(refs), confs)
             h2 == IF related = <<>> THEN h
                   ELSE [h EXCEPT ![Head(refs)].cross_pillar_considerations =
                            [i \in 1..Len(related) |-> Consideration(related[i])]]
         IN EnrichRecs(h2, Tail(refs), confs)

\* generate_cohesive_recommendations: [heap, all_recs, raised, result]
generate_cohesive_recommendations(h, prs, confs, emb) ==
    LET collected == CollectRecs(h, FlattenRecs(prs), <<>>)
        enriched == EnrichRecs(collected.heap, collected.all_recs, confs)
        d == DedupeIndices([i \in 1..Len(collected.all_recs) |-> enriched[collected.all_recs[i]]], emb)
    IN [heap |-> enriched, all_recs |-> collected.all_recs, raised |-> d.raised,
        result |-> [i \in 1..Len(d.kept) |-> collected.all_recs[d.kept[i]]]]

(***************************************************************************)
(* run_assessment_lifecycle.  pc names the await at which the coroutine is  *)
(* suspended; an action resumes it there and runs it to its next await.     *)
(* "cbN" is the await of update_progress(N, ...).                           *)
(***************************************************************************)
Pillars == {PillarNames[i] : i \in 1..NumPillars}

\* recommendations a pillar evaluation may return in a lifecycle run
LifecycleRecs ==
    {NewRec(<<"Reduce">>, <<"cost">>), NewRec(<<"replica">>, <<>>), NewRec(<<"automation">>, <<>>)}

ExecutorRecChoices == {<<>>} \cup {<<r>> : r \in LifecycleRecs}

\* vectors an embedding service may return for a text
EmbedVectors == {<<1, 0>>, <<3, 1>>, <<2, 1>>, <<0, 1>>, <<0, 0>>}

\* all lists of n vectors of a set
VectorLists(n, vs) == [1..n -> vs]

\* the vectors the direct client may return in a lifecycle run
LifecycleVectors == {<<1, 0>>, <<3, 1>>, <<0, 1>>}

\* The embedding layer as _dedupe_semantic_recommendations meets it inside the
\* running event loop of a lifecycle run: the provider is skipped
\* (loop.is_running()), the direct client answers for every text or not at all.
LifecycleEmbeddings(n) ==
    {[has_provider |-> hp, loop_running |-> TRUE, embed_raises |-> FALSE,
      embed_vectors |-> <<>>, legacy_available |-> FALSE, legacy_vectors |-> <<>>]
        : hp \in BOOLEAN}
    \cup
    {[has_provider |-> FALSE, loop_running |-> TRUE, embed_raises |-> FALSE,
      embed_vectors |-> <<>>, legacy_available |-> TRUE, legacy_vectors |-> v]
        : v \in VectorLists(n, LifecycleVectors)}

NoTask == [status |-> "none", result |-> <<>>]
PendingTask == [status |-> "pending", result |-> <<>>]

\* a variant that notifies 85 before 80
ProgressPercentsSwapped == <<5, 10, 20, 25, 85, 80, 90, 95, 100>>

\* the percents of the nine update_progress calls, in program order
ProgressPercents == <<5, 10, 20, 25, 80, 85, 90, 95, 100>>

\* the k-th update_progress call: await progress_callback(percent, description),
\* when a callback was given
update_progress(k) ==
    notified' = IF has_callback THEN Append(notified, ProgressPercents[k]) ELSE notified

\* no call of _dedupe_semantic_recommendations is modelled
DedupeOff ==
    dedupe_pc = "off" /\ dedupe_recs = <<>> /\ embedding = <<>> /\ dedupe_kept = <<>>

\* no direct call of conflict detection and synthesis is modelled
SynthOff ==
    /\ synth_pc = "off"
    /\ synth_heap = <<>>
    /\ synth_input = <<>>
    /\ synth_results = <<>>
    /\ synth_conflicts = <<>>
    /\ synth_all_recs = <<>>
    /\ synth_cohesive = <<>>

\* no call of _safe_truncate_corpus_section is modelled
TruncateOff ==
    /\ truncate_pc = "off"
    /\ section_text = <<>>
    /\ max_tokens = 0
    /\ truncated = <<>>

\* no two constructions of UnifiedReviewCorpus is modelled
BuildOff ==
    /\ build_pc = "off"
    /\ build_args = <<>>
    /\ hash_seed = <<>>
    /\ built = <<>>

\* no the pillar context built by create_unified_corpus is modelled
ContextOff ==
    /\ ctx_pc = "off"
    /\ ctx_analysis = <<>>
    /\ ctx_evidence = <<>>
    /\ ctx_result = <<>>

\* no a call of compute_pillar_scores(architecture_text, pillar) is modelled
PillarOff ==
    /\ pillar_pc = "off"
    /\ pillar_module = "none"
    /\ pillar_data = <<>>
    /\ architecture_text = <<>>
    /\ pillar_scores = <<>>

\* no _score_practice on a text and on a text matching one more signal is modelled
PracticeOff ==
    /\ practice_pc = "off"
    /\ practice_module = "none"
    /\ scored_practice = <<>>
    /\ practice_texts = <<>>
    /\ practice_results = <<>>

\* no a call of _phrase_present(text, phrase) is modelled
PhraseOff ==
    /\ phrase_pc = "off"
    /\ match_text = <<>>
    /\ match_phrase = <<>>
    /\ phrase_found = FALSE

\* no _compute_multi_section_maturity on a list of sections and on a reordering of it is modelled
SectionsOff ==
    /\ multi_pc = "off"
    /\ section_percents = <<>>
    /\ section_order = <<>>
    /\ engine_calls = 0
    /\ overall_percents = <<>>
    /\ multi_results = <<>>

\* no concurrent embed and chat calls on one LLMProvider is modelled
ProviderOff ==
    /\ provider_settings = <<>>
    /\ embed_cache = <<>>
    /\ sem_free = 0
    /\ provider_calls = <<>>
    /\ embed_obtained = <<>>
    /\ provider_bucket = <<>>
    /\ tokens_granted = 0

\* no a TokenBucket and the consume calls made on it is modelled
BucketOff ==
    /\ token_bucket = <<>>
    /\ consume_calls = 0
    /\ last_consume = <<>>

\* no call of _filter_legacy_sections is modelled
FilterOff ==
    /\ filter_pc = "off"
    /\ enable_legacy = <<>>
    /\ corpus_text = <<>>
    /\ filtered_text = <<>>

\* no stored assessment and a request of its progress is modelled
ProgressOff ==
    /\ mongo_db = FALSE
    /\ assessment = <<>>
    /\ progress_response = <<>>

\* no lifecycle run is modelled
LifecycleOff ==
    /\ current_state = StateNEW
    /\ pc = "off"
    /\ runs = 0
    /\ has_callback = FALSE
    /\ notified = <<>>
    /\ executor_raises = FALSE
    /\ exec_calls = 0
    /\ exec_status = "idle"
    /\ pending = {}
    /\ failed = {}
    /\ exec_results = <<>>
    /\ corpus = "none"
    /\ pillar_results = <<>>
    /\ conflicts_task = NoTask
    /\ min_duration_task = "none"
    /\ cohesive_task = NoTask
    /\ min_duration_task6 = "none"
    /\ conflicts = <<>>
    /\ cohesive_recs = <<>>
    /\ heap = <<>>

InitLifecycle ==
    /\ current_state = StateNEW
    /\ pc = "idle"
    /\ runs = 0
    /\ has_callback = FALSE
    /\ notified = <<>>
    /\ executor_raises = FALSE
    /\ exec_calls = 0
    /\ exec_status = "idle"
    /\ pending = {}
    /\ failed = {}
    /\ exec_results = <<>>
    /\ corpus = "none"
    /\ pillar_results = <<>>
    /\ conflicts_task = NoTask
    /\ min_duration_task = "none"
    /\ cohesive_task = NoTask
    /\ min_duration_task6 = "none"
    /\ conflicts = <<>>
    /\ cohesive_recs = <<>>
    /\ heap = <<>>

\* A call of run_assessment_lifecycle on the orchestrator, once no call is
\* running: the coroutine runs to its first await, update_progress(5).
Start ==
    /\ pc \in {"idle", "returned", "raised", "cancelled"}
    /\ runs < MaxRuns
    /\ runs' = runs + 1
    /\ \E cb \in BOOLEAN, er \in BOOLEAN :
          /\ has_callback' = cb
          /\ executor_raises' = er
          /\ notified' = IF cb THEN <<ProgressPercents[1]>> ELSE <<>>
    /\ pc' = "cb5"
    /\ exec_calls' = 0
    /\ exec_status' = "idle"
    /\ pending' = {}
    /\ failed' = {}
    /\ exec_results' = <<>>
    /\ corpus' = "none"
    /\ pillar_results' = <<>>
    /\ conflicts_task' = NoTask
    /\ min_duration_task' = "none"
    /\ cohesive_task' = NoTask
    /\ min_duration_task6' = "none"
    /\ conflicts' = <<>>
    /\ cohesive_recs' = <<>>
    /\ heap' = <<>>
    /\ UNCHANGED current_state
    /\ UNCHANGED otherThanLifecycle

\* update_progress(5) returned: PREPROCESSING, then update_progress(10)
AfterProgress5 ==
    /\ pc = "cb5"
    /\ current_state' = PREPROCESSING
    /\ update_progress(2)
    /\ pc' = "cb10"
    /\ UNCHANGED <<runs, has_callback, executor_raises, exec_calls, exec_status, pending,
                   failed, exec_results, corpus, pillar_results, conflicts_task,
                   min_duration_task, cohesive_task, min_duration_task6, conflicts,
                   cohesive_recs, heap>>
    /\ UNCHANGED otherThanLifecycle

\* update_progress(10) returned: the corpus is assembled, then update_progress(20)
AfterProgress10 ==
    /\ pc = "cb10"
    /\ corpus' = "assembled"
    /\ update_progress(3)
    /\ pc' = "cb20"
    /\ UNCHANGED <<current_state, runs, has_callback, executor_raises, exec_calls,
                   exec_status, pending, failed, exec_results, pillar_results,
                   conflicts_task, min_duration_task, cohesive_task, min_duration_task6,
                   conflicts, cohesive_recs, heap>>
    /\ UNCHANGED otherThanLifecycle

\* update_progress(20) returned: ACTIVE_ANALYSIS, then update_progress(25)
AfterProgress20 ==
    /\ pc = "cb20"
    /\ current_state' = ACTIVE_ANALYSIS
    /\ update_progress(4)
    /\ pc' = "cb25"
    /\ UNCHANGED <<runs, has_callback, executor_raises, exec_calls, exec_status, pending,
                   failed, exec_results, corpus, pillar_results, conflicts_task,
                   min_duration_task, cohesive_task, min_duration_task6, conflicts,
                   cohesive_recs, heap>>
    /\ UNCHANGED otherThanLifecycle

\* update_progress(25) returned: pillar_executor(corpus) is called and awaited
AfterProgress25 ==
    /\ pc = "cb25"
    /\ exec_calls' = exec_calls + 1
    /\ exec_status' = "running"
    /\ pending' = Pillars
    /\ pc' = "executor"
    /\ UNCHANGED <<current_state, runs, has_callback, notified, executor_raises, failed,
                   exec_results, corpus, pillar_results, conflicts_task, min_duration_task,
                   cohesive_task, min_duration_task6, conflicts, cohesive_recs, heap>>
    /\ UNCHANGED otherThanLifecycle

(***************************************************************************)
(* The caller-supplied pillar_executor while it is awaited: it evaluates   *)
(* the pillars in any order; an evaluation may fail.                        *)
(***************************************************************************)
\* one pillar evaluation completes with its result
PillarCompletes ==
    /\ pc = "executor"
    /\ exec_status = "running"
    /\ \E p \in pending, recs \in ExecutorRecChoices :
          /\ pending' = pending \ {p}
          /\ heap' = heap \o recs
          /\ exec_results' = Append(exec_results,
                [pillar |-> p,
                 recommendations |-> [i \in 1..Len(recs) |-> Len(heap) + i]])
    /\ UNCHANGED <<current_state, pc, runs, has_callback, notified, executor_raises,
                   exec_calls, exec_status, failed, corpus, pillar_results, conflicts_task,
                   min_duration_task, cohesive_task, min_duration_task6, conflicts,
                   cohesive_recs>>
    /\ UNCHANGED otherThanLifecycle

\* one pillar evaluation fails
PillarFails ==
    /\ pc = "executor"
    /\ exec_status = "running"
    /\ \E p \in pending :
          /\ pending' = pending \ {p}
          /\ failed' = failed \cup {p}
    /\ UNCHANGED <<current_state, pc, runs, has_callback, notified, executor_raises,
                   exec_calls, exec_status, exec_results, corpus, pillar_results,
                   conflicts_task, min_duration_task, cohesive_task, min_duration_task6,
                   conflicts, cohesive_recs, heap>>
    /\ UNCHANGED otherThanLifecycle

\* the executor returns the results it has, every evaluation having ended
ExecutorReturns ==
    /\ pc = "executor"
    /\ exec_status = "running"
    /\ pending = {}
    /\ failed = {} \/ ~executor_raises
    /\ exec_status' = "returned"
    /\ UNCHANGED <<current_state, pc, runs, has_callback, notified, executor_raises,
                   exec_calls, pending, failed, exec_results, corpus, pillar_results,
                   conflicts_task, min_duration_task, cohesive_task, min_duration_task6,
                   conflicts, cohesive_recs, heap>>
    /\ UNCHANGED otherThanLifecycle

\* the executor raises the failure of a pillar evaluation
ExecutorRaises ==
    /\ pc = "executor"
    /\ exec_status = "running"
    /\ failed # {}
    /\ executor_raises
    /\ exec_status' = "raised"
    /\ UNCHANGED <<current_state, pc, runs, has_callback, notified, executor_raises,
                   exec_calls, pending, failed, exec_results, corpus, pillar_results,
                   conflicts_task, min_duration_task, cohesive_task, min_duration_task6,
                   conflicts, cohesive_recs, heap>>
    /\ UNCHANGED otherThanLifecycle

(***************************************************************************)
(* run_assessment_lifecycle, continued                                      *)
(***************************************************************************)
\* a variant that goes on without awaiting the call
ExecutorNotAwaited(status) == status \in {"running", "returned"}

\* `await pillar_executor(corpus)` resumes once the call has returned
ExecutorAwaited(status) == status = "returned"

\* the executor returned: pillar_results is bound, then update_progress(80)
AfterExecutor ==
    /\ pc = "executor"
    /\ ExecutorAwaited(exec_status)
    /\ pillar_results' = exec_results
    /\ update_progress(5)
    /\ pc' = "cb80"
    /\ UNCHANGED <<current_state, runs, has_callback, executor_raises, exec_calls,
                   exec_status, pending, failed, exec_results, corpus, conflicts_task,
                   min_duration_task, cohesive_task, min_duration_task6, conflicts,
                   cohesive_recs, heap>>
    /\ UNCHANGED otherThanLifecycle

\* the executor raised: nothing catches the exception, the run ends with it
ExecutorFailurePropagates ==
    /\ pc = "executor"
    /\ exec_status = "raised"
    /\ pc' = "raised"
    /\ UNCHANGED <<current_state, runs, has_callback, notified, executor_raises, exec_calls,
                   exec_status, pending, failed, exec_results, corpus, pillar_results,
                   conflicts_task, min_duration_task, cohesive_task, min_duration_task6,
                   conflicts, cohesive_recs, heap>>
    /\ UNCHANGED otherThanLifecycle

\* update_progress(80) returned: CROSS_PILLAR_ALIGNMENT, then update_progress(85)
AfterProgress80 ==
    /\ pc = "cb80"
    /\ current_state' = CROSS_PILLAR_ALIGNMENT
    /\ update_progress(6)
    /\ pc' = "cb85"
    /\ UNCHANGED <<runs, has_callback, executor_raises, exec_calls, exec_status, pending,
                   failed, exec_results, corpus, pillar_results, conflicts_task,
                   min_duration_task, cohesive_task, min_duration_task6, conflicts,
                   cohesive_recs, heap>>
    /\ UNCHANGED otherThanLifecycle

\* update_progress(85) returned: the two tasks of phase 5 are created and gathered
AfterProgress85 ==
    /\ pc = "cb85"
    /\ conflicts_task' = PendingTask
    /\ min_duration_task' = "pending"
    /\ pc' = "gather5"
    /\ UNCHANGED <<current_state, runs, has_callback, notified, executor_raises, exec_calls,
                   exec_status, pending, failed, exec_results, corpus, pillar_results,
                   cohesive_task, min_duration_task6, conflicts, cohesive_recs, heap>>
    /\ UNCHANGED otherThanLifecycle

\* the task of detect_cross_pillar_conflicts runs (it has no await of its own)
RunConflictsTask ==
    /\ pc = "gather5"
    /\ conflicts_task.status = "pending"
    /\ conflicts_task' = [status |-> "done",
                          result |-> detect_cross_pillar_conflicts(heap, pillar_results)]
    /\ UNCHANGED <<current_state, pc, runs, has_callback, notified, executor_raises,
                   exec_calls, exec_status, pending, failed, exec_results, corpus,
                   pillar_results, min_duration_task, cohesive_task, min_duration_task6,
                   conflicts, cohesive_recs, heap>>
    /\ UNCHANGED otherThanLifecycle

\* asyncio.sleep(2.5) of phase 5 elapses
MinDurationElapses ==
    /\ pc = "gather5"
    /\ min_duration_task = "pending"
    /\ min_duration_task' = "done"
    /\ UNCHANGED <<current_state, pc, runs, has_callback, notified, executor_raises,
                   exec_calls, exec_status, pending, failed, exec_results, corpus,
                   pillar_results, conflicts_task, cohesive_task, min_duration_task6,
                   conflicts, cohesive_recs, heap>>
    /\ UNCHANGED otherThanLifecycle

\* a variant that resumes at the first task done (a race)
GatherFirstDone(a, b) == a = "done" \/ b = "done"

\* asyncio.gather(a, b) resumes its awaiter once both tasks are done
GatherDone(a, b) == a = "done" /\ b = "done"

\* gather of phase 5 returned: conflicts is bound, then update_progress(90)
AfterGather5 ==
    /\ pc = "gather5"
    /\ GatherDone(conflicts_task.status, min_duration_task)
    /\ conflicts' = conflicts_task.result
    /\ update_progress(7)
    /\ pc' = "cb90"
    /\ UNCHANGED <<current_state, runs, has_callback, executor_raises, exec_calls,
                   exec_status, pending, failed, exec_results, corpus, pillar_results,
                   conflicts_task, min_duration_task, cohesive_task, min_duration_task6,
                   cohesive_recs, heap>>
    /\ UNCHANGED otherThanLifecycle

\* update_progress(90) returned: the two tasks of phase 6 are created and gathered
AfterProgress90 ==
    /\ pc = "cb90"
    /\ cohesive_task' = PendingTask
    /\ min_duration_task6' = "pending"
    /\ pc' = "gather6"
    /\ UNCHANGED <<current_state, runs, has_callback, notified, executor_raises, exec_calls,
                   exec_status, pending, failed, exec_results, corpus, pillar_results,
                   conflicts_task, min_duration_task, conflicts, cohesive_recs, heap>>
    /\ UNCHANGED otherThanLifecycle

\* the task of generate_cohesive_recommendations runs (no await of its own)
RunCohesiveTask ==
    /\ pc = "gather6"
    /\ cohesive_task.status = "pending"
    /\ \E emb \in LifecycleEmbeddings(Len(FlattenRecs(pillar_results))) :
          LET g == generate_cohesive_recommendations(heap, pillar_results, conflicts, emb) IN
          /\ heap' = g.heap
          /\ cohesive_task' = [status |-> "done", result |-> g.result]
    /\ UNCHANGED <<current_state, pc, runs, has_callback, notified, executor_raises,
                   exec_calls, exec_status, pending, failed, exec_results, corpus,
                   pillar_results, conflicts_task, min_duration_task, min_duration_task6,
                   conflicts, cohesive_recs>>
    /\ UNCHANGED otherThanLifecycle

\* asyncio.sleep(2.5) of phase 6 elapses
MinDuration6Elapses ==
    /\ pc = "gather6"
    /\ min_duration_task6 = "pending"
    /\ min_duration_task6' = "done"
    /\ UNCHANGED <<current_state, pc, runs, has_callback, notified, executor_raises,
                   exec_calls, exec_status, pending, failed, exec_results, corpus,
                   pillar_results, conflicts_task, min_duration_task, cohesive_task,
                   conflicts, cohesive_recs, heap>>
    /\ UNCHANGED otherThanLifecycle

\* gather of phase 6 returned: cohesive_recs is bound, then update_progress(95)
AfterGather6 ==
    /\ pc = "gather6"
    /\ GatherDone(cohesive_task.status, min_duration_task6)
    /\ cohesive_recs' = cohesive_task.result
    /\ update_progress(8)
    /\ pc' = "cb95"
    /\ UNCHANGED <<current_state, runs, has_callback, executor_raises, exec_calls,
                   exec_status, pending, failed, exec_results, corpus, pillar_results,
                   conflicts_task, min_duration_task, cohesive_task, min_duration_task6,
                   conflicts, heap>>
    /\ UNCHANGED otherThanLifecycle

\* update_progress(95) returned: asyncio.sleep(2.0)
AfterProgress95 ==
    /\ pc = "cb95"
    /\ pc' = "sleep"
    /\ UNCHANGED <<current_state, runs, has_callback, notified, executor_raises, exec_calls,
                   exec_status, pending, failed, exec_results, corpus, pillar_results,
                   conflicts_task, min_duration_task, cohesive_task, min_duration_task6,
                   conflicts, cohesive_recs, heap>>
    /\ UNCHANGED otherThanLifecycle

\* the sleep elapsed: update_progress(100)
AfterSleep ==
    /\ pc = "sleep"
    /\ update_progress(9)
    /\ pc' = "cb100"
    /\ UNCHANGED <<current_state, runs, has_callback, executor_raises, exec_calls,
                   exec_status, pending, failed, exec_results, corpus, pillar_results,
                   conflicts_task, min_duration_task, cohesive_task, min_duration_task6,
                   conflicts, cohesive_recs, heap>>
    /\ UNCHANGED otherThanLifecycle

\* update_progress(100) returned: COMPLETED, and the call returns
AfterProgress100 ==
    /\ pc = "cb100"
    /\ current_state' = COMPLETED
    /\ pc' = "returned"
    /\ UNCHANGED <<runs, has_callback, notified, executor_raises, exec_calls, exec_status,
                   pending, failed, exec_results, corpus, pillar_results, conflicts_task,
                   min_duration_task, cohesive_task, min_duration_task6, conflicts,
                   cohesive_recs, heap>>
    /\ UNCHANGED otherThanLifecycle

\* a task or awaited call that had not ended is cancelled with its awaiter
CancelStatus(st) == IF st \in {"pending", "running"} THEN "cancelled" ELSE st

\* The host cancels the run while it is suspended: CancelledError is raised at
\* the await and, nothing catching it, ends the call.
Cancel ==
    /\ pc \notin {"off", "idle", "returned", "raised", "cancelled"}
    /\ pc' = "cancelled"
    /\ exec_status' = CancelStatus(exec_status)
    /\ conflicts_task' = [conflicts_task EXCEPT !.status = CancelStatus(@)]
    /\ min_duration_task' = CancelStatus(min_duration_task)
    /\ cohesive_task' = [cohesive_task EXCEPT !.status = CancelStatus(@)]
    /\ min_duration_task6' = CancelStatus(min_duration_task6)
    /\ UNCHANGED <<current_state, runs, has_callback, notified, executor_raises, exec_calls,
                   pending, failed, exec_results, corpus, pillar_results, conflicts,
                   cohesive_recs, heap>>
    /\ UNCHANGED otherThanLifecycle

NextLifecycle ==
    \/ Start
    \/ AfterProgress5
    \/ AfterProgress10
    \/ AfterProgress20
    \/ AfterProgress25
    \/ PillarCompletes
    \/ PillarFails
    \/ ExecutorReturns
    \/ ExecutorRaises
    \/ AfterExecutor
    \/ ExecutorFailurePropagates
    \/ AfterProgress80
    \/ AfterProgress85
    \/ RunConflictsTask
    \/ MinDurationElapses
    \/ AfterGather5
    \/ AfterProgress90
    \/ RunCohesiveTask
    \/ MinDuration6Elapses
    \/ AfterGather6
    \/ AfterProgress95
    \/ AfterSleep
    \/ AfterProgress100
    \/ Cancel

Init ==
    InitLifecycle /\ DedupeOff /\ SynthOff /\ TruncateOff /\ BuildOff /\ ContextOff /\ PillarOff /\ PracticeOff /\ PhraseOff /\ SectionsOff /\ ProviderOff /\ BucketOff /\ FilterOff /\ ProgressOff

Next == NextLifecycle

Spec == Init /\ [][Next]_vars

(***************************************************************************)
(* Properties of the lifecycle                                             *)
(***************************************************************************)
Notified(percent) == \E i \in 1..Len(notified) : notified[i] = percent

\* C1: every change of current_state moves strictly forward in the declared
\* order or goes to FAILED, and COMPLETED and FAILED are never left.
C1_StateOnlyMovesForward ==
    [][current_state' # current_state =>
          /\ current_state \notin {COMPLETED, FAILED}
          /\ \/ current_state' = FAILED
             \/ Rank(current_state') > Rank(current_state)]_vars

\* C2: the percents passed to progress_callback are integers of 0..100 in
\* non-decreasing order, and in a run that returned the last one is 100.
C2_ProgressMonotoneEndsAt100 ==
    /\ \A i \in 1..Len(notified) : notified[i] \in 0..100
    /\ \A i \in 1..(Len(notified) - 1) : notified[i] <= notified[i + 1]
    /\ (pc = "returned" /\ has_callback) =>
          /\ notified # <<>>
          /\ notified[Len(notified)] = 100

\* a run with a callback returned after all nine notifications
C2_Witness == pc = "returned" /\ has_callback /\ Len(notified) = 9

\* C3: pillar_executor is called at most once in a run and exactly once in a
\* run that returns, after the corpus was assembled; no percent of 80 or more
\* is notified and conflict detection is not started before the call has
\* returned with every pillar evaluation ended.
C3_ExecutorOnceAndJoined ==
    /\ exec_calls <= 1
    /\ exec_calls = 1 => corpus = "assembled"
    /\ pc = "returned" => exec_calls = 1
    /\ (\E i \in 1..Len(notified) : notified[i] >= 80) =>
          /\ exec_calls = 1
          /\ exec_status = "returned"
          /\ pending = {}
          /\ pillar_results = exec_results
    /\ conflicts_task.status # "none" =>
          /\ exec_status = "returned"
          /\ pending = {}

\* 80 was notified after the pillars completed out of their declaration order
C3_Witness ==
    /\ Notified(80)
    /\ Len(pillar_results) = NumPillars
    /\ pillar_results[1].pillar = PillarNames[2]

\* C4: 90 is not notified, and synthesis not started, before conflict detection
\* and its timer are both done; 95 is not notified before synthesis, which was
\* given the detected conflicts, and its timer are both done.
C4_BothTasksJoined ==
    /\ (Notified(90) \/ cohesive_task.status # "none") =>
          /\ conflicts_task.status = "done"
          /\ min_duration_task = "done"
          /\ conflicts = conflicts_task.result
    /\ Notified(95) =>
          /\ cohesive_task.status = "done"
          /\ min_duration_task6 = "done"
          /\ cohesive_recs = cohesive_task.result

\* 95 was notified in a run whose conflict detection found a conflict
C4_Witness == Notified(95) /\ conflicts # <<>> /\ cohesive_recs # <<>>

\* C5: a failure of the pillar executor does not abort the run.
C5_ExecutorFailureDoesNotAbort == failed # {} => pc # "raised"

\* C6: once a run is cancelled current_state is FAILED, and the cancelled run
\* passes nothing more to the callback.
C6_CancelledRunIsFailedAndSilent ==
    [][/\ (pc # "cancelled" /\ pc' = "cancelled") => current_state' = FAILED
       /\ (pc = "cancelled" /\ pc' = "cancelled") => notified' = notified]_vars

(***************************************************************************)
(* A call of _dedupe_semantic_recommendations from synchronous code, with  *)
(* the embedding layer behaving in every way it can.                        *)
(***************************************************************************)
\* recommendations whose words decide the bag-of-words vectors
WordedRecs ==
    {NewRec(<<"enable">>, <<>>),
     NewRec(<<"Enable">>, <<"backup">>),
     NewRec(<<"enable", "enable", "enable">>, <<"backup">>),
     NewRec(<<"backup">>, <<"24x7">>),
     NewRec(<<"ci/cd">>, <<>>)}

\* all lists of at most n elements of a set
ListsUpTo(n, S) == UNION {[1..k -> S] : k \in 0..n}

RecLabels == <<"first", "second", "third", "fourth", "fifth", "sixth", "seventh", "eighth">>

\* the i-th of n recommendations told apart by their titles only
NumberedRec(i) == NewRec(<<"rec", RecLabels[i]>>, <<>>)

NumberedRecs(n) == [i \in 1..n |-> NumberedRec(i)]

NoEmbedding ==
    [has_provider |-> FALSE, loop_running |-> FALSE, embed_raises |-> FALSE,
     embed_vectors |-> <<>>, legacy_available |-> FALSE, legacy_vectors |-> <<>>]

\* the embedding layer gives no vectors: no provider, a provider whose embed
\* raises or returns [], or a provider skipped because the loop is running
UnusableEmbeddings ==
    {NoEmbedding,
     [NoEmbedding EXCEPT !.has_provider = TRUE, !.embed_raises = TRUE],
     [NoEmbedding EXCEPT !.has_provider = TRUE],
     [NoEmbedding EXCEPT !.has_provider = TRUE, !.loop_running = TRUE]}

\* LLMProvider.embed returns k <= n vectors (k < n: some text got no vector),
\* or the direct client returns one vector per text
VectorEmbeddings(n) ==
    {[NoEmbedding EXCEPT !.has_provider = TRUE, !.embed_vectors = v]
        : v \in UNION {VectorLists(k, EmbedVectors) : k \in 1..n}}
    \cup
    {[NoEmbedding EXCEPT !.legacy_available = TRUE, !.legacy_vectors = v]
        : v \in VectorLists(n, LifecycleVectors)}

InitDedupe ==
    /\ dedupe_pc = "called"
    /\ dedupe_kept = <<>>
    /\ \/ /\ dedupe_recs \in ListsUpTo(MaxRecs, WordedRecs)
          /\ embedding \in UnusableEmbeddings
       \/ /\ \E n \in 1..MaxRecs :
                /\ dedupe_recs = NumberedRecs(n)
                /\ embedding \in VectorEmbeddings(n)

\* the call returns the kept recommendations
DedupeReturns ==
    /\ dedupe_pc = "called"
    /\ LET d == _dedupe_semantic_recommendations(dedupe_recs, embedding) IN
          /\ ~d.raised
          /\ dedupe_kept' = d.kept
    /\ dedupe_pc' = "returned"
    /\ UNCHANGED <<dedupe_recs, embedding>>
    /\ UNCHANGED otherThanDedupe

\* the call raises IndexError at vectors[idx]
DedupeRaises ==
    /\ dedupe_pc = "called"
    /\ _dedupe_semantic_recommendations(dedupe_recs, embedding).raised
    /\ dedupe_pc' = "raised"
    /\ UNCHANGED <<dedupe_recs, embedding, dedupe_kept>>
    /\ UNCHANGED otherThanDedupe

NextDedupe == DedupeReturns \/ DedupeRaises

DedupeInit ==
    InitDedupe /\ LifecycleOff /\ SynthOff /\ TruncateOff /\ BuildOff /\ ContextOff /\ PillarOff /\ PracticeOff /\ PhraseOff /\ SectionsOff /\ ProviderOff /\ BucketOff /\ FilterOff /\ ProgressOff

SpecDedupe == DedupeInit /\ [][NextDedupe]_vars

\* the elements of s at the indices of S, in order
RECURSIVE SubSeqAt(_, _, _)
SubSeqAt(s, S, i) ==
    IF i > Len(s) THEN <<>>
    ELSE (IF i \in S THEN <<s[i]>> ELSE <<>>) \o SubSeqAt(s, S, i + 1)

\* the vectors a returned call has compared
UsedVectors ==
    SelectVectors([i \in 1..Len(dedupe_recs) |-> Combined(dedupe_recs[i])], embedding)

\* C7: the list returned is the subsequence of recs at the indices S where
\* i is in S exactly when its cosine to every earlier member of S is at most
\* 0.90; the first recommendation is in S.
C7_GreedySinglePass ==
    dedupe_pc = "returned" =>
        \E S \in SUBSET (1..Len(dedupe_recs)) :
            /\ dedupe_kept = SubSeqAt(dedupe_recs, S, 1)
            /\ dedupe_recs # <<>> => 1 \in S
            /\ \A i \in 1..Len(dedupe_recs) :
                  i \in S <=>
                     \A j \in S : j < i => ~CosExceeds(UsedVectors[i], UsedVectors[j], 90, 100)

\* a call returned <<rec 1, rec 3>>: rec 2 was a duplicate of rec 1, and rec 3,
\* though closer than 0.90 to rec 2, was kept
C7_Witness ==
    /\ dedupe_pc = "returned"
    /\ Len(dedupe_recs) = 3
    /\ dedupe_kept = <<dedupe_recs[1], dedupe_recs[3]>>
    /\ CosExceeds(UsedVectors[3], UsedVectors[2], 90, 100)

\* C8: whatever the embedding layer does, the call does not raise.
C8_DedupeNeverRaises == dedupe_pc # "raised"

(***************************************************************************)
(* Direct calls of detect_cross_pillar_conflicts and then of               *)
(* generate_cohesive_recommendations on the same pillar results.           *)
(***************************************************************************)
\* recommendations of the first and of the second pillar of a pair
FirstPillarRecs(a) ==
    IF a = COST
    THEN {NewRec(<<"Reduce">>, <<"replica", "count">>), NewRec(<<"scale">>, <<"downsize">>),
          NewRec(<<"enable">>, <<"backup">>)}
    ELSE {NewRec(<<"encryption">>, <<>>), NewRec(<<"firewall">>, <<"security">>),
          NewRec(<<"enable">>, <<"backup">>)}

SecondPillarRecs(a) ==
    IF a = COST
    THEN {NewRec(<<"replica">>, <<"cost">>), NewRec(<<"multi-region">>, <<>>),
          NewRec(<<"enable">>, <<"backup">>)}
    ELSE {NewRec(<<"reduce">>, <<"overhead">>), NewRec(<<"latency">>, <<>>),
          NewRec(<<"enable">>, <<"backup">>)}

SecondOf(a) == IF a = COST THEN RELIABILITY ELSE PERFORMANCE

OperationalRecLists == {<<>>, <<NewRec(<<"maniac">>, <<"automation">>)>>}

\* the references k+1 .. k+n
RefsFrom(k, n) == [i \in 1..n |-> k + i]

\* the embedding layer as a call inside a running loop meets it, the direct
\* client giving every text the same vector or alternating ones
SynthEmbeddings(n) ==
    {[NoEmbedding EXCEPT !.has_provider = TRUE, !.loop_running = TRUE],
     [NoEmbedding EXCEPT !.loop_running = TRUE, !.legacy_available = TRUE,
                         !.legacy_vectors = [i \in 1..n |-> <<1, 0>>]],
     [NoEmbedding EXCEPT !.loop_running = TRUE, !.legacy_available = TRUE,
                         !.legacy_vectors = [i \in 1..n |-> IF i % 2 = 1 THEN <<1, 0>> ELSE <<0, 1>>]]}

InitSynth ==
    /\ synth_pc = "start"
    /\ \E a \in {COST, SECURITY} :
       \E ra \in ListsUpTo(MaxPillarRecs, FirstPillarRecs(a)),
          rb \in ListsUpTo(MaxPillarRecs, SecondPillarRecs(a)),
          ro \in OperationalRecLists :
          /\ synth_heap = ra \o rb \o ro
          /\ synth_results =
                <<[pillar |-> a, recommendations |-> RefsFrom(0, Len(ra))],
                  [pillar |-> SecondOf(a), recommendations |-> RefsFrom(Len(ra), Len(rb))],
                  [pillar |-> OPERATIONAL,
                   recommendations |-> RefsFrom(Len(ra) + Len(rb), Len(ro))]>>
    /\ synth_input = synth_heap
    /\ synth_conflicts = <<>>
    /\ synth_all_recs = <<>>
    /\ synth_cohesive = <<>>

\* await detect_cross_pillar_conflicts(pillar_results)
CallDetect ==
    /\ synth_pc = "start"
    /\ synth_conflicts' = detect_cross_pillar_conflicts(synth_heap, synth_results)
    /\ synth_pc' = "detected"
    /\ UNCHANGED <<synth_heap, synth_input, synth_results, synth_all_recs, synth_cohesive>>
    /\ UNCHANGED otherThanSynth

\* await generate_cohesive_recommendations(pillar_results, conflicts)
CallGenerate ==
    /\ synth_pc = "detected"
    /\ \E emb \in SynthEmbeddings(Len(FlattenRecs(synth_results))) :
          LET g == generate_cohesive_recommendations(synth_heap, synth_results,
                                                     synth_conflicts, emb) IN
          /\ synth_heap' = g.heap
          /\ synth_all_recs' = g.all_recs
          /\ synth_cohesive' = g.result
          /\ synth_pc' = IF g.raised THEN "raised" ELSE "synthesized"
    /\ UNCHANGED <<synth_input, synth_results, synth_conflicts>>
    /\ UNCHANGED otherThanSynth

NextSynth == CallDetect \/ CallGenerate

SynthInit ==
    InitSynth /\ LifecycleOff /\ DedupeOff /\ TruncateOff /\ BuildOff /\ ContextOff /\ PillarOff /\ PracticeOff /\ PhraseOff /\ SectionsOff /\ ProviderOff /\ BucketOff /\ FilterOff /\ ProgressOff

SpecSynth == SynthInit /\ [][NextSynth]_vars

\* the references the argument pillar_results holds
InputRefs ==
    UNION {{synth_results[i].recommendations[j] :
                j \in 1..Len(synth_results[i].recommendations)} :
            i \in 1..Len(synth_results)}

\* C9: after conflict detection and after synthesis every recommendation dict of
\* the argument pillar_results is what it was before the calls, and every
\* element of the list returned by the deduplication is an element of the list
\* all_recs it was given.
C9_InputsUnchanged ==
    /\ Len(synth_heap) >= Len(synth_input)
    /\ \A r \in 1..Len(synth_input) : synth_heap[r] = synth_input[r]
    /\ InputRefs = 1..Len(synth_input)
    /\ \A i \in 1..Len(synth_cohesive) :
          \E j \in 1..Len(synth_all_recs) : synth_cohesive[i] = synth_all_recs[j]

\* synthesis has annotated a recommendation with a conflict and dropped a duplicate
C9_Witness ==
    /\ synth_pc = "synthesized"
    /\ \E r \in 1..Len(synth_heap) : synth_heap[r].cross_pillar_considerations # <<>>
    /\ Len(synth_cohesive) < Len(synth_all_recs)
    /\ synth_cohesive # <<>>

(***************************************************************************)
(* _estimate_tokens and _safe_truncate_corpus_section.  A text is here a   *)
(* sequence of characters.                                                 *)
(***************************************************************************)
\* int(words * 1.3), as the fraction 13/10
TokensPerWordNum == 13
TokensPerWordDen == 10
\* 1 token is about 4 characters
CharsPerToken == 4
\* a period in the last 20% of the cut text: beyond 0.8 of max_chars
PeriodWindowNum == 8
PeriodWindowDen == 10

\* the literal appended to a cut text
TruncationMarker ==
    <<"\n", "\n", ".", ".", ".", " ",
      "[", "C", "o", "n", "t", "e", "n", "t", " ",
      "t", "r", "u", "n", "c", "a", "t", "e", "d", " ",
      "f", "o", "r", " ",
      "t", "o", "k", "e", "n", " ",
      "b", "u", "d", "g", "e", "t", " ",
      "-", " ",
      "f", "u", "l", "l", " ",
      "c", "o", "n", "t", "e", "x", "t", " ",
      "p", "r", "e", "s", "e", "r", "v", "e", "d", " ",
      "i", "n", " ",
      "d", "o", "c", "u", "m", "e", "n", "t", " ",
      "a", "n", "a", "l", "y", "s", "i", "s", "]">>

IsSpace(c) == c \in {" ", "\n", "\t"}

\* len(text.split()): the maximal runs of characters that are not whitespace
WordCount(text) ==
    Cardinality({i \in 1..Len(text) :
                    /\ ~IsSpace(text[i])
                    /\ (i = 1 \/ IsSpace(text[i - 1]))})

_estimate_tokens(text) ==
    IF text = <<>> THEN 0
    ELSE (WordCount(text) * TokensPerWordNum) \div TokensPerWordDen

\* text.rfind('.') + 1: the position of the last period, 0 when there is none
LastPeriod(text) ==
    LET ps == {i \in 1..Len(text) : text[i] = "."} IN
    IF ps = {} THEN 0 ELSE CHOOSE p \in ps : \A r \in ps : r <= p

_safe_truncate_corpus_section(text, budget) ==
    IF text = <<>> THEN text
    ELSE IF _estimate_tokens(text) <= budget THEN text
    ELSE LET max_chars == budget * CharsPerToken IN
         IF Len(text) > max_chars
         THEN LET cut == SubSeq(text, 1, max_chars)
                  last_period == LastPeriod(cut) - 1
              IN (IF PeriodWindowDen * last_period > PeriodWindowNum * max_chars
                  THEN SubSeq(cut, 1, last_period + 1)
                  ELSE cut) \o TruncationMarker
         ELSE text

\* the characters section texts are made of
TextChars == {"a", " ", "."}

InitTruncate ==
    /\ truncate_pc = "called"
    /\ section_text \in ListsUpTo(MaxTextLen, TextChars)
    /\ max_tokens \in 1..MaxBudget
    /\ truncated = <<>>

\* the call returns
TruncateReturns ==
    /\ truncate_pc = "called"
    /\ truncated' = _safe_truncate_corpus_section(section_text, max_tokens)
    /\ truncate_pc' = "returned"
    /\ UNCHANGED <<section_text, max_tokens>>
    /\ UNCHANGED otherThanTruncate

NextTruncate == TruncateReturns

TruncateInit ==
    InitTruncate /\ LifecycleOff /\ DedupeOff /\ SynthOff /\ BuildOff /\ ContextOff /\ PillarOff /\ PracticeOff /\ PhraseOff /\ SectionsOff /\ ProviderOff /\ BucketOff /\ FilterOff /\ ProgressOff

SpecTruncate == TruncateInit /\ [][NextTruncate]_vars

EndsWith(text, suffix) ==
    /\ Len(text) >= Len(suffix)
    /\ SubSeq(text, Len(text) - Len(suffix) + 1, Len(text)) = suffix

\* C10: for a section text whose estimated token count exceeds max_tokens the
\* text returned has an estimated token count of at most max_tokens and ends
\* with the truncation marker.
C10_TruncatedWithinBudget ==
    (truncate_pc = "returned" /\ _estimate_tokens(section_text) > max_tokens) =>
        /\ _estimate_tokens(truncated) <= max_tokens
        /\ EndsWith(truncated, TruncationMarker)

(***************************************************************************)
(* UnifiedReviewCorpus.__post_init__: full_corpus composed from the        *)
(* sections, the inventory and the pillar context.  A string is here the   *)
(* sequence of the fragments it is made of; a dict is the sequence of its  *)
(* items in insertion order.                                               *)
(***************************************************************************)
\* signals[:8]
EvidenceCap == 8

\* str.title() of a category or pillar name
Title(w) ==
    CASE w = "compute" -> "Compute"
      [] w = "other" -> "Other"
      [] w = "reliability" -> "Reliability"
      [] w = "security" -> "Security"
      [] OTHER -> w

\* sep.join(parts), each part a sequence of fragments
RECURSIVE Join(_, _)
Join(parts, sep) ==
    IF parts = <<>> THEN <<>>
    ELSE IF Len(parts) = 1 THEN Head(parts)
    ELSE Head(parts) \o <<sep>> \o Join(Tail(parts), sep)

\* the order in which a set of strings is iterated: decided by the hashes of
\* the strings, which str hash randomization draws per process
HashOrder(seed) ==
    IF seed = 1 THEN <<"aks", "sql", "vm">> ELSE <<"vm", "sql", "aks">>

\* iterating set(services)
SetIteration(services, seed) ==
    LET In(x) == \E i \in 1..Len(services) : services[i] = x
    IN SelectSeq(HashOrder(seed), In)

\* comp.get("category", "other")
CategoryOf(comp) == IF comp.category = Absent THEN "other" ELSE comp.category

\* the keys of by_category in insertion order
RECURSIVE CategoryKeys(_, _)
CategoryKeys(inventory, keys) ==
    IF inventory = <<>> THEN keys
    ELSE LET cat == CategoryOf(Head(inventory))
             Seen(k) == k = cat
         IN CategoryKeys(Tail(inventory),
                         IF SelectSeq(keys, Seen) = <<>> THEN Append(keys, cat) ELSE keys)

\* by_category[cat]: the services of the category in inventory order
ServicesOf(inventory, cat) ==
    LET InCat(comp) == CategoryOf(comp) = cat
        comps == SelectSeq(inventory, InCat)
    IN [i \in 1..Len(comps) |-> comps[i].service]

\* f"{cat.title()}: {', '.join(set(services))}"
CategoryLine(inventory, cat, seed) ==
    LET listed == SetIteration(ServicesOf(inventory, cat), seed)
    IN <<Title(cat), ": ">> \o Join([i \in 1..Len(listed) |-> <<listed[i]>>], ", ")

\* the parts appended for a non-empty component_inventory
InventoryParts(inventory, seed) ==
    IF inventory = <<>> THEN <<>>
    ELSE LET keys == CategoryKeys(inventory, <<>>)
         IN <<(<<"\n=== COMPONENT INVENTORY ===">>)>>
            \o [i \in 1..Len(keys) |-> CategoryLine(inventory, keys[i], seed)]

\* f"**{pillar.title()}**: " + "; ".join(signals[:8])
EvidenceLine(item) ==
    LET signals == item[2]
        capped == SubSeq(signals, 1, IF Len(signals) < EvidenceCap THEN Len(signals) ELSE EvidenceCap)
    IN <<"**", Title(item[1]), "**: ">> \o Join([i \in 1..Len(capped) |-> <<capped[i]>>], "; ")

\* evidence_section
EvidenceSection(pillar_context) ==
    LET HasSignals(item) == item[2] # <<>>
        items == SelectSeq(pillar_context, HasSignals)
    IN <<(<<"\n=== CONSOLIDATED PILLAR EVIDENCE ===">>)>>
       \o [i \in 1..Len(items) |-> EvidenceLine(items[i])]

\* __post_init__: the value of full_corpus
FullCorpus(args, seed) ==
    LET parts ==
            (IF args.architecture_narrative # ""
             THEN <<(<<"=== ARCHITECTURE NARRATIVE ===\n", args.architecture_narrative>>)>>
             ELSE <<>>)
            \o (IF args.visual_augmentation # ""
                THEN <<(<<"\n=== VISUAL TOPOLOGY INSIGHTS ===\n", args.visual_augmentation>>)>>
                ELSE <<>>)
            \o (IF args.reactive_case_signals # ""
                THEN <<(<<"\n=== OPERATIONAL REALITY (SUPPORT CASES) ===\n",
                          args.reactive_case_signals>>)>>
                ELSE <<>>)
            \o InventoryParts(args.component_inventory, seed)
        joined == Join(parts, "\n")
    IN IF args.pillar_context # <<>>
       THEN joined \o <<"\n">> \o Join(EvidenceSection(args.pillar_context), "\n")
       ELSE joined

\* the three sections of a corpus
SectionChoices ==
    {<<"", "", "">>, <<"narrative", "", "cases">>, <<"narrative", "visual", "cases">>}

Components ==
    {[category |-> "compute", service |-> "vm"],
     [category |-> "compute", service |-> "aks"],
     [category |-> Absent, service |-> "sql"]}

NineSignals == <<"s1", "s2", "s3", "s4", "s5", "s6", "s7", "s8", "s9">>

\* pillar_context dicts: items in insertion order
PillarContexts ==
    {<<>>,
     <<(<<"reliability", <<"backup">>>>)>>,
     <<(<<"reliability", <<"backup">>>>), (<<"security", <<"mfa", "rbac">>>>)>>,
     <<(<<"security", <<"mfa", "rbac">>>>), (<<"reliability", <<"backup">>>>)>>,
     <<(<<"reliability", <<>>>>), (<<"security", NineSignals>>)>>}

CorpusArgs(sections, inventory, pillar_context) ==
    [architecture_narrative |-> sections[1], visual_augmentation |-> sections[2],
     reactive_case_signals |-> sections[3], component_inventory |-> inventory,
     pillar_context |-> pillar_context]

HashSeeds == {1, 2}

InitBuild ==
    /\ build_pc = "start"
    /\ \E sections \in SectionChoices :
       \E inv1 \in ListsUpTo(MaxInventory, Components), inv2 \in ListsUpTo(MaxInventory, Components) :
       \E ctx1 \in PillarContexts, ctx2 \in PillarContexts :
          build_args = <<CorpusArgs(sections, inv1, ctx1), CorpusArgs(sections, inv2, ctx2)>>
    /\ hash_seed \in HashSeeds \X HashSeeds
    /\ built = <<>>

\* UnifiedReviewCorpus(...) in a process whose hash seed is hash_seed[1]
BuildFirst ==
    /\ build_pc = "start"
    /\ built' = <<FullCorpus(build_args[1], hash_seed[1])>>
    /\ build_pc' = "first"
    /\ UNCHANGED <<build_args, hash_seed>>
    /\ UNCHANGED otherThanBuild

\* UnifiedReviewCorpus(...) again, in a process whose hash seed is hash_seed[2]
BuildSecond ==
    /\ build_pc = "first"
    /\ built' = Append(built, FullCorpus(build_args[2], hash_seed[2]))
    /\ build_pc' = "both"
    /\ UNCHANGED <<build_args, hash_seed>>
    /\ UNCHANGED otherThanBuild

NextBuild == BuildFirst \/ BuildSecond

BuildInit ==
    InitBuild /\ LifecycleOff /\ DedupeOff /\ SynthOff /\ TruncateOff /\ ContextOff /\ PillarOff /\ PracticeOff /\ PhraseOff /\ SectionsOff /\ ProviderOff /\ BucketOff /\ FilterOff /\ ProgressOff

SpecBuild == BuildInit /\ [][NextBuild]_vars

\* d1 == d2 for two dicts
DictEqual(d1, d2) == {d1[i] : i \in 1..Len(d1)} = {d2[i] : i \in 1..Len(d2)}

\* the arguments of the two constructions are equal
ArgsEqual(a, b) ==
    /\ a.architecture_narrative = b.architecture_narrative
    /\ a.visual_augmentation = b.visual_augmentation
    /\ a.reactive_case_signals = b.reactive_case_signals
    /\ a.component_inventory = b.component_inventory
    /\ DictEqual(a.pillar_context, b.pillar_context)

\* C11: two corpus objects built from equal sections, equal inventory and equal
\* pillar_context have the same full_corpus.
C11_FullCorpusDeterministic ==
    (build_pc = "both" /\ ArgsEqual(build_args[1], build_args[2])) => built[1] = built[2]

(***************************************************************************)
(* create_unified_corpus: the pillar context.  An excerpt is a sequence of *)
(* characters; a dict is the sequence of its items in insertion order.     *)
(* The three section texts are composed from the documents independently   *)
(* of the pillar context and are not part of this call's model.            *)
(***************************************************************************)
\* s.lower()[:140]
KeyLen == 140

\* str.lower() of one character; "I-dot" is the capital dotted I (U+0130), which
\* becomes the two characters i and combining dot above
LowerChar(c) ==
    CASE c = "A" -> <<"a">>
      [] c = "B" -> <<"b">>
      [] c = "I-dot" -> <<"i", "dot-above">>
      [] OTHER -> <<c>>

\* s.lower(): the lower-cased characters in order, computed half by half
RECURSIVE LowerChars(_)
LowerChars(s) ==
    IF s = <<>> THEN <<>>
    ELSE IF Len(s) = 1 THEN LowerChar(s[1])
    ELSE LET half == Len(s) \div 2
         IN LowerChars(SubSeq(s, 1, half)) \o LowerChars(SubSeq(s, half + 1, Len(s)))

\* key = s.lower()[:140]
ExcerptKey(s) ==
    LET low == LowerChars(s)
    IN SubSeq(low, 1, IF Len(low) < KeyLen THEN Len(low) ELSE KeyLen)

\* a variant that never remembers a key
SeenAfterNone(seen, key) == seen

\* seen.add(key)
SeenAfter(seen, key) == seen \cup {key}

\* the loop `for s in sigs` with its set seen and its list deduped
RECURSIVE DedupeSignals(_, _, _)
DedupeSignals(sigs, seen, deduped) ==
    IF sigs = <<>> THEN deduped
    ELSE LET key == ExcerptKey(Head(sigs)) IN
         IF key \notin seen
         THEN DedupeSignals(Tail(sigs), SeenAfter(seen, key), Append(deduped, Head(sigs)))
         ELSE DedupeSignals(Tail(sigs), seen, deduped)

\* d.setdefault(pillar, []).extend(xs) on a dict d
SetDefaultExtend(d, pillar, xs) ==
    IF \E i \in 1..Len(d) : d[i][1] = pillar
    THEN [i \in 1..Len(d) |-> IF d[i][1] = pillar THEN <<pillar, d[i][2] \o xs>> ELSE d[i]]
    ELSE Append(d, <<pillar, xs>>)

\* the items of one dict merged into d, in their order
RECURSIVE ExtendAll(_, _, _)
ExtendAll(d, items, skip_empty) ==
    IF items = <<>> THEN d
    ELSE ExtendAll(IF skip_empty /\ Head(items)[2] = <<>> THEN d
                   ELSE SetDefaultExtend(d, Head(items)[1], Head(items)[2]),
                   Tail(items), skip_empty)

\* the existing pillar signals of every analysis result, merged
RECURSIVE CollectSignals(_, _)
CollectSignals(d, analysis) ==
    IF analysis = <<>> THEN d
    ELSE CollectSignals(ExtendAll(d, Head(analysis), FALSE), Tail(analysis))

\* pillar_context before the deduplication
MergedContext(analysis, evidence) == ExtendAll(CollectSignals(<<>>, analysis), evidence, TRUE)

\* pillar_context of the corpus returned
PillarContext(analysis, evidence) ==
    LET merged == MergedContext(analysis, evidence)
    IN [i \in 1..Len(merged) |-> <<merged[i][1], DedupeSignals(merged[i][2], {}, <<>>)>>]

\* n times the character c
Repeat(c, n) == [i \in 1..n |-> c]

\* excerpts that agree or differ before, at and beyond the 140th character
Excerpts ==
    {<<"a", "b">>,
     <<"A", "b">>,
     Repeat("a", KeyLen - 1) \o <<"b", "a">>,
     Repeat("a", KeyLen - 1) \o <<"B", "b">>,
     Repeat("a", KeyLen - 1) \o <<"a", "b">>,
     Repeat("a", KeyLen - 1) \o <<"I-dot">>,
     Repeat("a", KeyLen - 1) \o <<"i", "b">>}

\* pillar_signals of the analysis results
AnalysisChoices ==
    {<<>>,
     <<(<<(<<"reliability", <<(<<"A", "b">>)>>>>)>>)>>,
     <<(<<(<<"reliability", <<(<<"a", "b">>), (<<"a", "b">>)>>>>)>>),
       (<<(<<"security", <<>>>>), (<<"reliability", <<(Repeat("a", KeyLen - 1) \o <<"b", "b">>)>>>>)>>)>>}

\* consolidated evidence: excerpts for reliability, and for security or not
EvidenceChoices ==
    UNION {{<<(<<"reliability", ex>>)>>,
            <<(<<"security", <<(<<"a", "b">>)>>>>), (<<"reliability", ex>>)>>}
           : ex \in ListsUpTo(MaxExcerpts, Excerpts)}

InitContext ==
    /\ ctx_pc = "called"
    /\ ctx_analysis \in AnalysisChoices
    /\ ctx_evidence \in EvidenceChoices
    /\ ctx_result = <<>>

\* await create_unified_corpus(documents, analysis_results) returns
CreateCorpusReturns ==
    /\ ctx_pc = "called"
    /\ ctx_result' = PillarContext(ctx_analysis, ctx_evidence)
    /\ ctx_pc' = "returned"
    /\ UNCHANGED <<ctx_analysis, ctx_evidence>>
    /\ UNCHANGED otherThanContext

NextContext == CreateCorpusReturns

ContextInit ==
    InitContext /\ LifecycleOff /\ DedupeOff /\ SynthOff /\ TruncateOff /\ BuildOff /\ PillarOff /\ PracticeOff /\ PhraseOff /\ SectionsOff /\ ProviderOff /\ BucketOff /\ FilterOff /\ ProgressOff

SpecContext == ContextInit /\ [][NextContext]_vars

\* the indices of the first occurrence of every key in a merged list
FirstOfKey(merged) ==
    {i \in 1..Len(merged) :
        \A j \in 1..(i - 1) : ExcerptKey(merged[j]) # ExcerptKey(merged[i])}

\* C12: for each pillar the excerpts returned have pairwise different keys and are
\* the first occurrences of their keys among the merged excerpts, in merge order.
C12_PillarContextDeduped ==
    ctx_pc = "returned" =>
        LET merged == MergedContext(ctx_analysis, ctx_evidence) IN
        /\ Len(ctx_result) = Len(merged)
        /\ \A p \in 1..Len(merged) :
              LET kept == ctx_result[p][2] IN
              /\ ctx_result[p][1] = merged[p][1]
              /\ \A i, j \in 1..Len(kept) :
                    i # j => ExcerptKey(kept[i]) # ExcerptKey(kept[j])
              /\ kept = SubSeqAt(merged[p][2], FirstOfKey(merged[p][2]), 1)

\* a pillar whose merged excerpts agreed on their first 140 characters, in
\* another case, and differed beyond: the later one was dropped
C12_Witness ==
    /\ ctx_pc = "returned"
    /\ \E p \in 1..Len(ctx_result) :
          LET merged == MergedContext(ctx_analysis, ctx_evidence)[p][2]
              kept == ctx_result[p][2]
          IN /\ Len(kept) >= 2
             /\ Len(kept) < Len(merged)
             /\ \E i, j \in 1..Len(merged) :
                   /\ i < j
                   /\ Len(merged[i]) > KeyLen
                   /\ merged[i] # merged[j]
                   /\ LowerChars(merged[i]) # LowerChars(merged[j])
                   /\ ExcerptKey(merged[i]) = ExcerptKey(merged[j])

(***************************************************************************)
(* The scoring engine (utils/scoring/scoring.py), in its two copies: "src" *)
(* is src/utils/scoring/scoring.py, "backend" is                           *)
(* backend/utils/scoring/scoring.py.  A text, a signal and a phrase are    *)
(* sequences of characters; a float that the code rounds to 2 decimals is  *)
(* the integer number of its hundredths; a coverage is the fraction        *)
(* matched_weight / total_weight of two integers.                          *)
(***************************************************************************)
ScoringModules == {"src", "backend"}

\* the top of the 0-5 practice scale
MaxScore == 5
\* full_match = coverage >= 0.999
FullMatchNum == 999
FullMatchDen == 1000
\* round(overall_percent, 2): hundredths of a percent
PercentScale == 100
HundredthsPerUnit == 100

\* \w of the regular expression
IsWordChar(c) == c \in {"a", "b", "A", "B", "_"}

\* \b before the character at index i (1..Len+1): exactly one of the characters
\* on its two sides is a word character
WordBoundary(text, i) ==
    LET before == i > 1 /\ IsWordChar(text[i - 1])
        after == i <= Len(text) /\ IsWordChar(text[i])
    IN before # after

\* phrase.strip()
Strip(phrase) ==
    LET solid == {i \in 1..Len(phrase) : ~IsSpace(phrase[i])} IN
    IF solid = {} THEN <<>>
    ELSE SubSeq(phrase, CHOOSE i \in solid : \A j \in solid : i <= j,
                        CHOOSE i \in solid : \A j \in solid : j <= i)

\* the stripped phrase stands in the text between two word boundaries
PhraseAt(text, stripped) ==
    /\ stripped # <<>>
    /\ \E start \in 1..(Len(text) - Len(stripped) + 1) :
          /\ SubSeq(text, start, start + Len(stripped) - 1) = stripped
          /\ WordBoundary(text, start)
          /\ WordBoundary(text, start + Len(stripped))

\* re.search(r"\b" + re.escape(phrase) + r"\b", text) is not None
_phrase_present(text, phrase) == PhraseAt(text, Strip(phrase))

\* the base of a limb of a double
LimbBase == 16384

\* d.get(key, default) of a dict given as a function
DictGet(d, key, default) == IF key \in DOMAIN d THEN d[key] ELSE default

\* the sum of f over the indices 1..n
RECURSIVE SumOver(_, _)
SumOver(f, n) == IF n = 0 THEN 0 ELSE f[n] + SumOver(f, n - 1)

\* int(round(n / d)) for n >= 0, d > 0: to the nearest integer, a tie to the even one
RoundHalfEven(n, d) ==
    LET q == n \div d
        r == n % d
    IN IF 2 * r < d THEN q
       ELSE IF 2 * r > d THEN q + 1
       ELSE IF q % 2 = 0 THEN q ELSE q + 1

\* the terms of one signal: its lower-cased name and aliases
BaseTerms(conf, sig) ==
    <<LowerChars(sig)>> \o
    [i \in 1..Len(DictGet(conf.signal_aliases, sig, <<>>)) |->
        LowerChars(conf.signal_aliases[sig][i])]

\* scoring_conf.get("signals", [])
ScoringSignals(conf) == IF conf.signals = <<>> THEN <<>> ELSE conf.signals[1]

\* any(_phrase_present(text, term) for term in base_terms)
TermPresent(text, base_terms) ==
    \E k \in 1..Len(base_terms) : _phrase_present(text, base_terms[k])

\* the dict _match_scoring_signals returns for the signals matched; the "src"
\* copy returns without the key "coverage" when total_weight is 0
MatchInfo(module, conf, signals, matched) ==
    LET Weight(sig) == DictGet(conf.signal_weights, sig, 1)
        total_weight == SumOver([i \in 1..Len(signals) |-> Weight(signals[i])], Len(signals))
    IN IF module = "src" /\ total_weight = 0
       THEN [matched |-> <<>>, matched_weight |-> 0, total_weight |-> 0, has_coverage |-> FALSE]
       ELSE [matched |-> matched,
             matched_weight |-> SumOver([i \in 1..Len(matched) |-> Weight(matched[i])], Len(matched)),
             total_weight |-> total_weight, has_coverage |-> TRUE]

\* _match_scoring_signals: [matched, matched_weight, total_weight, has_coverage]
_match_scoring_signals(module, text, conf) ==
    LET Matches(sig) == TermPresent(text, BaseTerms(conf, sig))
    IN MatchInfo(module, conf, ScoringSignals(conf), SelectSeq(ScoringSignals(conf), Matches))

\* a variant that compares the wrong way round: num/den is at most a/b
CoverageAtMost(coverage, a, b) == coverage.num * b <= a * coverage.den

\* a coverage num/den is at least a/b
CoverageAtLeast(coverage, a, b) == coverage.num * b >= a * coverage.den

\* _score_from_coverage; the tiers' tolerance of 1e-9 is below the distance
\* between a coverage of small integer weights and a tier
_score_from_coverage(mode, coverage, any_matched, full_match) ==
    IF ~any_matched THEN 0
    ELSE IF mode = "tiered"
    THEN IF CoverageAtLeast(coverage, 1, 1) /\ full_match THEN 5
         ELSE IF CoverageAtLeast(coverage, 3, 4) THEN 4
         ELSE IF CoverageAtLeast(coverage, 1, 2) THEN 3
         ELSE IF CoverageAtLeast(coverage, 1, 4) THEN 2
         ELSE 1
    ELSE IF mode = "binary"
    THEN IF full_match THEN 5
         ELSE IF CoverageAtLeast(coverage, 1, 2) THEN 4 ELSE 2
    ELSE RoundHalfEven(coverage.num * MaxScore, coverage.den)

\* str.lower() of a mode name
LowerMode(mode) ==
    CASE mode = "Tiered" -> "tiered"
      [] mode = "Binary" -> "binary"
      [] OTHER -> mode

\* practice.get("scoring") is truthy: a dict with at least one key
HasScoringBlock(practice) == practice.scoring # <<>>

\* the PracticeScore of a practice with a scoring block, from its match_info
ScoreOfBlock(practice, weight, conf, mode, match_info) ==
    LET coverage == IF match_info.total_weight = 0 THEN [num |-> 0, den |-> 1]
                    ELSE [num |-> match_info.matched_weight, den |-> match_info.total_weight]
        any_matched == match_info.matched # <<>>
        full_match == CoverageAtLeast(coverage, FullMatchNum, FullMatchDen)
    IN [raised |-> ~match_info.has_coverage, code |-> practice.code, weight |-> weight,
        score |-> _score_from_coverage(mode, coverage, any_matched, full_match),
        matched_signals |-> match_info.matched,
        total_signals |-> Len(ScoringSignals(conf)),
        coverage |-> coverage, mode |-> mode]

\* the PracticeScore of a practice with a flat signals list, from the signals
\* matched
ScoreOfLegacy(practice, weight, signals, matched) ==
    LET coverage == IF signals # <<>> THEN [num |-> Len(matched), den |-> Len(signals)]
                    ELSE [num |-> 0, den |-> 1]
    IN [raised |-> FALSE, code |-> practice.code, weight |-> weight,
        score |-> IF signals # <<>>
                  THEN RoundHalfEven(coverage.num * MaxScore, coverage.den) ELSE 0,
        matched_signals |-> matched, total_signals |-> Len(signals),
        coverage |-> coverage, mode |-> "legacy-proportional"]

\* practice.get("signals", [])
LegacySignals(practice) == IF practice.signals = <<>> THEN <<>> ELSE practice.signals[1]

\* float(override_weight if override_weight is not None else practice.get("weight", 0))
PracticeWeight(practice, override_weight) ==
    IF override_weight # <<>> THEN override_weight[1]
    ELSE IF practice.weight = <<>> THEN 0 ELSE practice.weight[1]

\* scoring_conf.get("mode", "proportional").lower()
ModeOf(conf) == IF conf.mode = Absent THEN "proportional" ELSE LowerMode(conf.mode)

\* _score_practice: the PracticeScore, or raised (KeyError: 'coverage').  An
\* optional value (None or an absent key, or a value) is <<>> or <<value>>.
_score_practice(module, practice, text, override_weight) ==
    IF HasScoringBlock(practice)
    THEN ScoreOfBlock(practice, PracticeWeight(practice, override_weight), practice.scoring[1],
                      ModeOf(practice.scoring[1]),
                      _match_scoring_signals(module, text, practice.scoring[1]))
    ELSE LET Matches(sig) == _phrase_present(text, LowerChars(sig))
         IN ScoreOfLegacy(practice, PracticeWeight(practice, override_weight),
                          LegacySignals(practice), SelectSeq(LegacySignals(practice), Matches))

\* a variant that never takes a weight from the weights map
OverrideWeightIgnored(weights_map, code) == <<>>

\* override_weight of a practice: weights_map.get(code) if code and code in weights_map
OverrideWeight(weights_map, code) ==
    IF code # Absent /\ code \in DOMAIN weights_map THEN <<weights_map[code]>> ELSE <<>>

\* the totals of compute_pillar_scores over the practice scores
PillarTotals(practice_scores) ==
    LET n == Len(practice_scores)
        total_weight == SumOver([i \in 1..n |-> practice_scores[i].weight], n)
        weighted_scores ==
            SumOver([i \in 1..n |-> practice_scores[i].score * practice_scores[i].weight], n)
    IN [raised |-> \E i \in 1..n : practice_scores[i].raised,
        practice_scores |-> practice_scores,
        overall_maturity_percent |->
            IF total_weight # 0
            THEN RoundHalfEven(weighted_scores * PercentScale * HundredthsPerUnit,
                               MaxScore * total_weight)
            ELSE 0]

\* the PracticeScore list, each practice scored on the lower-cased text
ScoredList(module, data, lowered) ==
    [i \in 1..Len(data.practices) |->
        _score_practice(module, data.practices[i], lowered,
                        OverrideWeight(data.weights, data.practices[i].code))]

\* compute_pillar_scores: [raised, practice_scores, overall_maturity_percent], the
\* percent in hundredths
compute_pillar_scores(module, data, text) ==
    PillarTotals(ScoredList(module, data, LowerChars(text)))

(***************************************************************************)
(* A call of compute_pillar_scores on a pillar definition.                 *)
(***************************************************************************)
NoScoring ==
    [mode |-> Absent, signals |-> <<>>, signal_weights |-> <<>>, signal_aliases |-> <<>>]

\* what a practice declares besides its code and weight
PracticeKinds ==
    {[signals |-> <<(<<(<<"a">>), (<<"b">>), (<<"a", "b">>)>>)>>, scoring |-> <<>>],
     [signals |-> <<>>,
      scoring |-> <<[NoScoring EXCEPT !.mode = "Tiered",
                                      !.signals = <<(<<(<<"a">>), (<<"b">>)>>)>>,
                                      !.signal_weights = (<<"a">> :> 2)]>>],
     [signals |-> <<>>,
      scoring |-> <<[NoScoring EXCEPT !.mode = "binary", !.signals = <<(<<>>)>>]>>]}

PracticeCodes == <<"P1", "P2", "P3", "P4">>

\* the practices list of a definition: the i-th practice has the i-th code
PracticeLists ==
    UNION {[1..n -> PracticeKinds \X ({<<>>} \cup {<<w>> : w \in 0..MaxWeight})] : n \in 0..MaxPractices}

PracticeOf(code, choice) ==
    [code |-> code, weight |-> choice[2], signals |-> choice[1].signals,
     scoring |-> choice[1].scoring]

\* the weights map of a definition
WeightsMaps == {<<>>, ("P1" :> 2), ("P1" :> 0 @@ "P2" :> 1)}

ArchitectureTexts ==
    {<<>>, <<"A", ".">>, <<"a", "b", " ", "b">>, <<"b", " ", "a", " ", "a", "b">>}

InitPillar ==
    /\ pillar_pc = "called"
    /\ pillar_module \in ScoringModules
    /\ \E choices \in PracticeLists, weights \in WeightsMaps :
          pillar_data =
              [weights |-> weights,
               practices |-> [i \in 1..Len(choices) |-> PracticeOf(PracticeCodes[i], choices[i])]]
    /\ architecture_text \in ArchitectureTexts
    /\ pillar_scores = <<>>

\* the outcome r of the call is to return a PillarScores
ReturnsScores(r) ==
    /\ ~r.raised
    /\ pillar_scores' = [practice_scores |-> r.practice_scores,
                         overall_maturity_percent |-> r.overall_maturity_percent]

\* the call returns a PillarScores
ComputeReturns ==
    /\ pillar_pc = "called"
    /\ ReturnsScores(compute_pillar_scores(pillar_module, pillar_data, architecture_text))
    /\ pillar_pc' = "returned"
    /\ UNCHANGED <<pillar_module, pillar_data, architecture_text>>
    /\ UNCHANGED otherThanPillar

\* the call raises KeyError out of _score_practice
ComputeRaises ==
    /\ pillar_pc = "called"
    /\ compute_pillar_scores(pillar_module, pillar_data, architecture_text).raised
    /\ pillar_pc' = "raised"
    /\ UNCHANGED <<pillar_module, pillar_data, architecture_text, pillar_scores>>
    /\ UNCHANGED otherThanPillar

NextPillar == ComputeReturns \/ ComputeRaises

PillarInit ==
    InitPillar /\ LifecycleOff /\ DedupeOff /\ SynthOff /\ TruncateOff /\ BuildOff /\ ContextOff /\ PracticeOff /\ PhraseOff /\ SectionsOff /\ ProviderOff /\ BucketOff /\ FilterOff /\ ProgressOff

SpecPillar == PillarInit /\ [][NextPillar]_vars

\* weight_i of the claim: the weights map's entry for the practice code when
\* there is one, the practice's own weight otherwise, 0 when it has none
ClaimedWeight(i) ==
    LET practice == pillar_data.practices[i] IN
    IF practice.code \in DOMAIN pillar_data.weights THEN pillar_data.weights[practice.code]
    ELSE IF practice.weight = <<>> THEN 0 ELSE practice.weight[1]

NumPractices == Len(pillar_data.practices)

\* the sum of weight_i
SumWeights == SumOver([i \in 1..NumPractices |-> ClaimedWeight(i)], NumPractices)

\* the sum of score_i * weight_i over the practice scores reported
SumWeightedScores ==
    SumOver([i \in 1..NumPractices |->
                pillar_scores.practice_scores[i].score * ClaimedWeight(i)], NumPractices)

\* |a - b|
AbsDiff(a, b) == IF a >= b THEN a - b ELSE b - a

\* C13: the percent reported is 100 * sum(score_i * weight_i) / (5 * sum weight_i)
\* rounded to 2 decimals (its hundredths are within a half of the exact
\* quotient's), 0 when the weights sum to 0, and lies in [0, 100].
C13_WeightedMaturityRounded ==
    pillar_pc = "returned" =>
        LET reported == pillar_scores.overall_maturity_percent IN
        /\ SumWeights = 0 => reported = 0
        /\ SumWeights > 0 =>
              2 * AbsDiff(reported * 5 * SumWeights, 10000 * SumWeightedScores) <= 5 * SumWeights
        /\ reported >= 0
        /\ reported <= 10000

\* C13 as stated: the percent reported is exactly the quotient
\* 100 * sum(score_i * weight_i) / (5 * sum weight_i).
C13_WeightedMaturityExact ==
    (pillar_pc = "returned" /\ SumWeights > 0) =>
        pillar_scores.overall_maturity_percent * 5 * SumWeights = 10000 * SumWeightedScores

\* a definition whose weights map overrides a practice's own weight, with
\* practices of different scores and a quotient that is not a whole number of
\* hundredths
C13_Witness ==
    /\ pillar_pc = "returned"
    /\ SumWeights > 0
    /\ \E i \in 1..NumPractices :
          /\ pillar_data.practices[i].code \in DOMAIN pillar_data.weights
          /\ pillar_data.practices[i].weight # <<ClaimedWeight(i)>>
    /\ \E i, j \in 1..NumPractices :
          /\ pillar_scores.practice_scores[i].score > pillar_scores.practice_scores[j].score
          /\ ClaimedWeight(i) > 0
          /\ ClaimedWeight(j) > 0
    /\ (10000 * SumWeightedScores) % (5 * SumWeights) # 0

(***************************************************************************)
(* _score_practice on a text T and then on a text T' of the same practice. *)
(***************************************************************************)
\* the signals a practice can declare, in declaration order
SignalPool == <<(<<"a">>), (<<"B">>), (<<"a", " ", "B">>)>>

\* a signals list: absent (<<>>), or <<list>> with list a prefix of the pool
SignalLists == {<<>>} \cup {<<SubSeq(SignalPool, 1, n)>> : n \in 0..Len(SignalPool)}

\* signal_weights: no entry, or non-negative weights for some of the signals
SignalWeightMaps ==
    {<<>>} \cup {(<<"a">> :> w) : w \in 0..MaxWeight}
           \cup {(<<"a">> :> w @@ <<"B">> :> v @@ <<"a", " ", "B">> :> v) :
                    w \in 0..MaxWeight, v \in 0..MaxWeight}

\* signal_aliases: no entry, or one alias of the second signal
SignalAliasMaps == {<<>>, (<<"B">> :> <<(<<"A", "b">>)>>)}

ScoringModes == {Absent, "proportional", "Tiered", "binary", "custom"}

\* the practices scored: legacy ones and ones with a scoring block
ScoredPractices ==
    {[code |-> "P1", weight |-> <<1>>, signals |-> signals, scoring |-> <<>>] :
        signals \in SignalLists}
    \cup
    {[code |-> "P1", weight |-> <<1>>, signals |-> <<>>,
      scoring |-> <<[mode |-> mode, signals |-> signals, signal_weights |-> weights,
                     signal_aliases |-> aliases]>>] :
        mode \in ScoringModes, signals \in SignalLists, weights \in SignalWeightMaps,
        aliases \in SignalAliasMaps}

PracticeTexts ==
    {<<>>, <<"a">>, <<"a", "b">>, <<"B", ".">>, <<"b", " ", "a">>, <<"A", " ", "b">>,
     <<"a", " ", "b", " ", "a", "b">>}

InitPractice ==
    /\ practice_pc = "start"
    /\ practice_module \in ScoringModules
    /\ scored_practice \in ScoredPractices
    /\ practice_texts \in PracticeTexts \X PracticeTexts
    /\ practice_results = <<>>

\* the call in hand: on T first, on T' second, with the text lower-cased by
\* the caller and no override weight
PracticeCall ==
    _score_practice(practice_module, scored_practice,
                    LowerChars(practice_texts[Len(practice_results) + 1]), <<>>)

\* _score_practice returns a PracticeScore
ScoreReturns ==
    /\ practice_pc \in {"start", "first"}
    /\ ~PracticeCall.raised
    /\ practice_results' = Append(practice_results, PracticeCall)
    /\ practice_pc' = IF practice_pc = "start" THEN "first" ELSE "both"
    /\ UNCHANGED <<practice_module, scored_practice, practice_texts>>
    /\ UNCHANGED otherThanPractice

\* _score_practice raises KeyError: 'coverage'
ScoreRaises ==
    /\ practice_pc \in {"start", "first"}
    /\ PracticeCall.raised
    /\ practice_pc' = "raised"
    /\ UNCHANGED <<practice_module, scored_practice, practice_texts, practice_results>>
    /\ UNCHANGED otherThanPractice

NextPractice == ScoreReturns \/ ScoreRaises

PracticeInit ==
    InitPractice /\ LifecycleOff /\ DedupeOff /\ SynthOff /\ TruncateOff /\ BuildOff /\ ContextOff /\ PillarOff /\ PhraseOff /\ SectionsOff /\ ProviderOff /\ BucketOff /\ FilterOff /\ ProgressOff

SpecPractice == PracticeInit /\ [][NextPractice]_vars

\* the practice declares no signals: a legacy list that is empty or absent, or
\* a scoring block whose signals list is empty or absent
DeclaresNoSignals(practice) ==
    IF practice.scoring # <<>>
    THEN practice.scoring[1].signals \in {<<>>, <<(<<>>)>>}
    ELSE practice.signals \in {<<>>, <<(<<>>)>>}

\* C14: a practice that declares no signals is scored without raising, with
\* score 0 and coverage 0, in every scoring mode.
C14_NoSignalsScoreZero ==
    DeclaresNoSignals(scored_practice) =>
        /\ practice_pc # "raised"
        /\ \A i \in 1..Len(practice_results) :
              /\ practice_results[i].score = 0
              /\ practice_results[i].coverage.num = 0

\* the signals of a matched list
MatchedSet(result) == {result.matched_signals[i] : i \in 1..Len(result.matched_signals)}

\* T' matches every signal T matches and one more
MatchesMore ==
    /\ MatchedSet(practice_results[1]) \subseteq MatchedSet(practice_results[2])
    /\ MatchedSet(practice_results[1]) # MatchedSet(practice_results[2])

\* C15: when T' matches every signal T matches plus a previously unmatched
\* one, the coverage and the score on T' are at least those on T.
C15_ScoringMonotone ==
    (practice_pc = "both" /\ MatchesMore) =>
        /\ practice_results[2].coverage.num * practice_results[1].coverage.den
              >= practice_results[1].coverage.num * practice_results[2].coverage.den
        /\ practice_results[2].score >= practice_results[1].score

\* a tiered practice with weighted signals of which T matches one and T' one
\* more, with a higher score
C15_Witness ==
    /\ practice_pc = "both"
    /\ MatchesMore
    /\ scored_practice.scoring # <<>>
    /\ scored_practice.scoring[1].mode = "Tiered"
    /\ scored_practice.scoring[1].signal_weights # <<>>
    /\ practice_results[1].matched_signals # <<>>
    /\ practice_results[2].score > practice_results[1].score

(***************************************************************************)
(* One signal match: _phrase_present(text, sig.lower()) on the lower-cased *)
(* architecture text.                                                      *)
(***************************************************************************)
MatchAlphabet == {"a", "B", " ", ".", "+"}

\* the texts and the signal phrases matched
MatchTexts == UNION {[1..n -> MatchAlphabet] : n \in 0..MaxMatchLen}

MatchPhrases == UNION {[1..n -> MatchAlphabet] : n \in 1..MaxPhraseLen}

InitPhrase ==
    /\ phrase_pc = "called"
    /\ match_text \in MatchTexts
    /\ match_phrase \in MatchPhrases
    /\ phrase_found = FALSE

\* the signal is looked up in the text
PhraseMatched ==
    /\ phrase_pc = "called"
    /\ phrase_found' = _phrase_present(LowerChars(match_text), LowerChars(match_phrase))
    /\ phrase_pc' = "returned"
    /\ UNCHANGED <<match_text, match_phrase>>
    /\ UNCHANGED otherThanPhrase

NextPhrase == PhraseMatched

PhraseInit ==
    InitPhrase /\ LifecycleOff /\ DedupeOff /\ SynthOff /\ TruncateOff /\ BuildOff /\ ContextOff /\ PillarOff /\ PracticeOff /\ SectionsOff /\ ProviderOff /\ BucketOff /\ FilterOff /\ ProgressOff

SpecPhrase == PhraseInit /\ [][NextPhrase]_vars

\* the phrase occurs in the text delimited on each side by the text boundary
\* or a non-word character
WholeWordOccurrence(text, phrase) ==
    \E start \in 1..(Len(text) - Len(phrase) + 1) :
        LET end == start + Len(phrase) - 1 IN
        /\ SubSeq(text, start, end) = phrase
        /\ start = 1 \/ ~IsWordChar(text[start - 1])
        /\ end = Len(text) \/ ~IsWordChar(text[end + 1])

\* C16: a (non-blank) signal phrase counts as present if and only if it occurs
\* in the lower-cased text delimited on each side by the text boundary or a
\* non-word character.
C16_BoundarySafe ==
    (phrase_pc = "returned" /\ Strip(match_phrase) # <<>>) =>
        (phrase_found <=>
            WholeWordOccurrence(LowerChars(match_text), Strip(LowerChars(match_phrase))))

(***************************************************************************)
(* The float arithmetic of round(sum(overall_percents) /                   *)
(* len(overall_percents), 2), exactly.  A double in [32, 512) is a whole   *)
(* number of units of 2^-47, written as four limbs of 14 bits, the most    *)
(* significant first; the first limb may exceed the base.                  *)
(***************************************************************************)
\* carries of the three lower limbs moved up
Normalize(x) ==
    LET v3 == x[3] + x[4] \div LimbBase
        v2 == x[2] + v3 \div LimbBase
    IN <<x[1] + v2 \div LimbBase, v2 % LimbBase, v3 % LimbBase, x[4] % LimbBase>>

\* quotient and remainder of x by a small divisor
DivSmall(x, d) ==
    LET c2 == (x[1] % d) * LimbBase + x[2]
        c3 == (c2 % d) * LimbBase + x[3]
        c4 == (c3 % d) * LimbBase + x[4]
    IN [q |-> <<x[1] \div d, c2 \div d, c3 \div d, c4 \div d>>, r |-> c4 % d]

AddSmall(x, k) == Normalize([x EXCEPT ![4] = @ + k])

TimesSmall(x, k) == Normalize([i \in 1..4 |-> x[i] * k])

\* the spacing of the doubles around x, in units: 2^-47 in [32, 64), doubling
\* with each binade
UlpOf(x) == IF x[1] >= 8192 THEN 8 ELSE IF x[1] >= 4096 THEN 4 ELSE IF x[1] >= 2048 THEN 2 ELSE 1

\* x to the nearest multiple of u, a tie to the even multiple
RoundToUlp(x, u) ==
    LET low == x[4] % u
        down == [x EXCEPT ![4] = @ - low]
    IN IF 2 * low < u THEN down
       ELSE IF 2 * low > u THEN AddSmall(down, u)
       ELSE IF (down[4] \div u) % 2 = 0 THEN down ELSE AddSmall(down, u)

\* the double nearest to h / 100, for h hundredths in 3200..10000: what
\* round(overall_percent, 2) of the scoring engine returns
ToDouble(h) ==
    LET u == IF h >= 6400 THEN 2 ELSE 1
        d == DivSmall(<<h * 32, 0, 0, 0>>, 100 * u)
    IN TimesSmall(IF 2 * d.r > 100 * u THEN AddSmall(d.q, 1) ELSE d.q, u)

\* a + b of two doubles
FloatAdd(a, b) ==
    LET s == Normalize([i \in 1..4 |-> a[i] + b[i]]) IN RoundToUlp(s, UlpOf(s))

\* s / n of a double by a small integer
FloatDiv(s, n) ==
    LET u == IF s[1] >= 2048 * n THEN 2 ELSE 1
        d == DivSmall(s, n * u)
        up == 2 * d.r > n * u \/ (2 * d.r = n * u /\ d.q[4] % 2 = 1)
    IN TimesSmall(IF up THEN AddSmall(d.q, 1) ELSE d.q, u)

\* round(x, 2) in hundredths: the exact value of the double x, to the nearest
\* hundredth, a tie to the even one
RoundTwoDecimals(x) ==
    LET y == TimesSmall(x, 100)
        k == y[1] \div 32
        frac == y[1] % 32
        rest == y[2] # 0 \/ y[3] # 0 \/ y[4] # 0
    IN IF frac > 16 \/ (frac = 16 /\ rest) THEN k + 1
       ELSE IF frac = 16 /\ k % 2 = 1 THEN k + 1
       ELSE k

\* sum(ps) of a non-empty list of doubles, left to right from the integer 0
RECURSIVE FloatSum(_)
FloatSum(ps) ==
    IF Len(ps) = 1 THEN ps[1]
    ELSE FloatAdd(FloatSum(SubSeq(ps, 1, Len(ps) - 1)), ps[Len(ps)])

\* round(sum(ps) / len(ps), 2) if ps else 0.0, in hundredths
MeanPercent(ps) ==
    IF ps = <<>> THEN 0 ELSE RoundTwoDecimals(FloatDiv(FloatSum(ps), Len(ps)))

(***************************************************************************)
(* _compute_multi_section_maturity on a list of sections, and then on the  *)
(* same sections in another order.  A section is known by the              *)
(* overall_maturity_percent the scoring engine reports for it.             *)
(***************************************************************************)
\* the percents of a section, in hundredths
SectionPercents == {3613, 3655, 5603, 6000, 8407}

SectionLists == UNION {[1..n -> SectionPercents] : n \in 0..MaxSections}

InitSections ==
    /\ multi_pc = "scoring"
    /\ section_percents \in SectionLists
    /\ section_order \in Permutations(1..Len(section_percents))
    /\ engine_calls = 0
    /\ overall_percents = <<>>
    /\ multi_results = <<>>

\* the sections given to the call in hand
SectionsGiven ==
    IF multi_results = <<>> THEN section_percents
    ELSE [i \in 1..Len(section_percents) |-> section_percents[section_order[i]]]

\* one turn of the loop: the engine scores the next section, and its percent
\* is appended
ScoreSection ==
    /\ multi_pc = "scoring"
    /\ Len(overall_percents) < Len(SectionsGiven)
    /\ engine_calls' = engine_calls + 1
    /\ overall_percents' =
          Append(overall_percents, ToDouble(SectionsGiven[Len(overall_percents) + 1]))
    /\ UNCHANGED <<multi_pc, section_percents, section_order, multi_results>>
    /\ UNCHANGED otherThanSections

\* after the loop the call returns the mean; the second call starts afresh
ReturnMaturity ==
    /\ multi_pc = "scoring"
    /\ Len(overall_percents) = Len(SectionsGiven)
    /\ multi_results' =
          Append(multi_results,
                 [calls |-> engine_calls,
                  overall_maturity_percent |-> MeanPercent(overall_percents)])
    /\ multi_pc' = IF multi_results = <<>> THEN "scoring" ELSE "done"
    /\ engine_calls' = 0
    /\ overall_percents' = <<>>
    /\ UNCHANGED <<section_percents, section_order>>
    /\ UNCHANGED otherThanSections

NextSections == ScoreSection \/ ReturnMaturity

SectionsInit ==
    InitSections /\ LifecycleOff /\ DedupeOff /\ SynthOff /\ TruncateOff /\ BuildOff /\ ContextOff /\ PillarOff /\ PracticeOff /\ PhraseOff /\ ProviderOff /\ BucketOff /\ FilterOff /\ ProgressOff

SpecSections == SectionsInit /\ [][NextSections]_vars

\* the sum of the sections' percents, in hundredths
SumPercents == SumOver(section_percents, Len(section_percents))

\* the engine was invoked once per section given
OncePerSection == \A r \in 1..Len(multi_results) : multi_results[r].calls = Len(section_percents)

\* the percent reported is the mean of the sections' percents to the nearest
\* hundredth, 0 for no section
MeanRounded ==
    \A r \in 1..Len(multi_results) :
        2 * AbsDiff(multi_results[r].overall_maturity_percent * Len(section_percents),
                    SumPercents) <= Len(section_percents)

\* C17: each call invokes the scoring engine once per section and reports the
\* unweighted mean of the sections' percents rounded to 2 decimals, the same
\* for the sections in any order.
C17_MeanOfSections ==
    multi_pc = "done" =>
        /\ OncePerSection
        /\ MeanRounded
        /\ multi_results[1].overall_maturity_percent = multi_results[2].overall_maturity_percent

(***************************************************************************)
(* TokenBucket.  Token counts are whole numbers of units, TokenUnits to a  *)
(* token; the clock advances in ticks, TokenUnits to a second, so that     *)
(* elapsed * rate is a whole number of units.                              *)
(***************************************************************************)
\* TokenBucket(rate_per_sec, capacity): capacity is <<>> for None
NewTokenBucket(rate_per_sec, capacity) ==
    LET rate == IF rate_per_sec > 1 THEN rate_per_sec ELSE 1
        cap == IF capacity # <<>> /\ capacity[1] # 0 THEN capacity[1] ELSE rate
    IN [rate |-> rate, capacity |-> cap * TokenUnits, tokens |-> cap * TokenUnits]

\* a variant of the refill that does not cap the tokens
RefilledUncapped(bucket, elapsed) ==
    [bucket EXCEPT !.tokens = @ + elapsed * bucket.rate]

\* the refill of consume: min(capacity, tokens + elapsed * rate) when tokens
\* were added
Refilled(bucket, elapsed) ==
    LET new_tokens == elapsed * bucket.rate
        sum == bucket.tokens + new_tokens
    IN IF new_tokens > 0
       THEN [bucket EXCEPT !.tokens = IF sum < bucket.capacity THEN sum ELSE bucket.capacity]
       ELSE bucket

\* the bucket after the refill is charged the amount when it holds it
Charged(refilled, amount) ==
    IF refilled.tokens >= amount * TokenUnits
    THEN [bucket |-> [refilled EXCEPT !.tokens = @ - amount * TokenUnits], granted |-> TRUE]
    ELSE [bucket |-> refilled, granted |-> FALSE]

\* TokenBucket.consume(amount), elapsed ticks after the last refill:
\* [bucket, granted]
Consume(bucket, elapsed, amount) == Charged(Refilled(bucket, elapsed), amount)

InitBucket ==
    /\ \E rate_per_sec \in 0..MaxRate, capacity \in {<<>>} \cup {<<k>> : k \in 0..MaxCapacity} :
          token_bucket = NewTokenBucket(rate_per_sec, capacity)
    /\ consume_calls = 0
    /\ last_consume = <<>>

\* bucket.consume(amount) is called, some time after the call before
ConsumeCalled(elapsed, amount) ==
    /\ consume_calls < MaxConsumes
    /\ consume_calls' = consume_calls + 1
    /\ token_bucket' = Consume(token_bucket, elapsed, amount).bucket
    /\ last_consume' = [elapsed |-> elapsed, amount |-> amount, before |-> token_bucket.tokens,
                        granted |-> Consume(token_bucket, elapsed, amount).granted]
    /\ UNCHANGED otherThanBucket

NextBucket == \E elapsed \in 0..MaxElapsed, amount \in 0..MaxAmount : ConsumeCalled(elapsed, amount)

BucketInit ==
    InitBucket /\ LifecycleOff /\ DedupeOff /\ SynthOff /\ TruncateOff /\ BuildOff /\ ContextOff /\ PillarOff /\ PracticeOff /\ PhraseOff /\ SectionsOff /\ ProviderOff /\ FilterOff /\ ProgressOff

SpecBucket == BucketInit /\ [][NextBucket]_vars

\* the tokens available to the last call: those before it plus the refill,
\* at most the capacity
AvailableToLast ==
    LET sum == last_consume.before + last_consume.elapsed * token_bucket.rate
    IN IF sum < token_bucket.capacity THEN sum ELSE token_bucket.capacity

\* C23: the token count stays within [0, capacity]; a new bucket is full;
\* consume(n) is granted and removes n tokens exactly when n tokens are
\* available after the refill, and otherwise removes none.
C23_TokensWithinCapacity ==
    /\ token_bucket.tokens >= 0
    /\ token_bucket.tokens <= token_bucket.capacity
    /\ consume_calls = 0 => token_bucket.tokens = token_bucket.capacity
    /\ consume_calls > 0 =>
          /\ last_consume.granted <=> AvailableToLast >= last_consume.amount * TokenUnits
          /\ token_bucket.tokens =
                IF last_consume.granted
                THEN AvailableToLast - last_consume.amount * TokenUnits
                ELSE AvailableToLast

\* a bucket that holds part of a token after earlier calls refuses consume(1)
\* and keeps what it holds
C23_Witness ==
    /\ consume_calls > 1
    /\ ~last_consume.granted
    /\ last_consume.amount = 1
    /\ token_bucket.tokens > 0
    /\ token_bucket.tokens < TokenUnits

(***************************************************************************)
(* LLMProvider: embed, chat and vision calls running concurrently on one   *)
(* provider.                                                               *)
(* A call runs without interruption up to its next await; the awaits are   *)
(* the token-bucket sleep, the semaphore, the client call and the backoff  *)
(* sleep.  The clock is the environment's: each call of the token bucket   *)
(* comes some ticks after the one before.                                  *)
(***************************************************************************)
ProviderCalls == {"c1", "c2"}

EmbedTexts == {"A", "B"}

\* the texts argument of an embed call
EmbedTextLists == {<<>>, <<"A">>, <<"B">>, <<"A", "A">>, <<"A", "B">>}

\* what item.get("embedding") can be: a vector, or "" for None or an empty list
NoVector == ""

ItemEmbeddings == {NoVector, "v1", "v2"}

\* the data of a response to a request of n texts: the service may return
\* fewer items than texts
ResponseData(n) == UNION {[1..k -> ItemEmbeddings] : k \in 0..n}

ConcurrencyLimits == {1, 2}

\* settings with everything enabled and a client, and the three ways a call
\* is short-circuited
ProviderSettings ==
    {[llm_enabled |-> TRUE, embeddings_enabled |-> TRUE, vision_enabled |-> TRUE,
      has_client |-> TRUE, retry_attempts |-> r, max_concurrent_requests |-> m,
      per_second_rate_limit |-> 1] :
        r \in 0..MaxRetries, m \in ConcurrencyLimits}
    \cup
    {[llm_enabled |-> l, embeddings_enabled |-> e, vision_enabled |-> v,
      has_client |-> h, retry_attempts |-> 1, max_concurrent_requests |-> 1,
      per_second_rate_limit |-> 1] :
        <<l, e, v, h>> \in {<<FALSE, TRUE, TRUE, TRUE>>, <<TRUE, FALSE, TRUE, TRUE>>,
                            <<TRUE, TRUE, FALSE, TRUE>>, <<TRUE, TRUE, TRUE, FALSE>>}}

\* hashlib.sha256(text.encode("utf-8")).hexdigest(): one digest per text
_hash_text(text) == <<"sha256", text>>

\* a variant of the lookup that never finds a text
CachedNever(cache, text) == FALSE

\* h in self._embed_cache
Cached(cache, text) == _hash_text(text) \in DOMAIN cache

\* a call that has not been made yet
IdleCall ==
    [pc |-> "idle", op |-> "none", texts |-> <<>>, to_fetch |-> <<>>, results |-> <<>>,
     attempt |-> 0, sent |-> <<>>, known |-> <<>>, outcome |-> "none", has_token |-> FALSE,
     obtained |-> <<>>]

InitProvider ==
    /\ provider_settings \in ProviderSettings
    /\ embed_cache = <<>>
    /\ sem_free = provider_settings.max_concurrent_requests
    /\ provider_calls = [c \in ProviderCalls |-> IdleCall]
    /\ embed_obtained = [t \in EmbedTexts |-> <<>>]
    /\ provider_bucket = NewTokenBucket(provider_settings.per_second_rate_limit, <<>>)
    /\ tokens_granted = 0

\* the first lines of _run_with_retry: self._consume_token(), and the sleep
\* when it returns False; has_token records what it returned
EntersRetry(c, call, elapsed) ==
    LET consumed == Consume(provider_bucket, elapsed, 1)
    IN /\ provider_bucket' = consumed.bucket
       /\ tokens_granted' = IF consumed.granted THEN tokens_granted + 1 ELSE tokens_granted
       /\ provider_calls' =
              [provider_calls EXCEPT ![c] = [call EXCEPT !.pc = "waiting",
                                                         !.has_token = consumed.granted]]

\* the call returns before _run_with_retry
ReturnsEarly(c, call) ==
    /\ provider_calls' = [provider_calls EXCEPT ![c] = [call EXCEPT !.pc = "done"]]
    /\ UNCHANGED <<provider_bucket, tokens_granted>>

\* embed is called and runs to its first await: the short-circuits and the
\* cache lookup; with nothing to fetch it returns the cached vectors
EmbedCalled(c, texts, elapsed) ==
    /\ provider_calls[c].pc = "idle"
    /\ LET enabled == provider_settings.embeddings_enabled /\ provider_settings.has_client
           IsHit(t) == Cached(embed_cache, t)
           IsMiss(t) == ~Cached(embed_cache, t)
           hits == SelectSeq(texts, IsHit)
           to_fetch == IF enabled THEN SelectSeq(texts, IsMiss) ELSE <<>>
           results == IF enabled
                      THEN [i \in 1..Len(hits) |-> embed_cache[_hash_text(hits[i])]]
                      ELSE <<>>
           call == [IdleCall EXCEPT !.op = "embed", !.texts = texts, !.to_fetch = to_fetch,
                                    !.results = results, !.known = embed_obtained,
                                    !.obtained = embed_obtained,
                                    !.outcome = IF to_fetch = <<>> THEN "returned" ELSE "none"]
       IN IF to_fetch = <<>> THEN ReturnsEarly(c, call) ELSE EntersRetry(c, call, elapsed)
    /\ UNCHANGED <<provider_settings, embed_cache, sem_free, embed_obtained>>
    /\ UNCHANGED otherThanProvider

\* chat is called and runs to its first await
ChatCalled(c, elapsed) ==
    /\ provider_calls[c].pc = "idle"
    /\ LET outcome == IF ~provider_settings.llm_enabled THEN "disabled"
                      ELSE IF ~provider_settings.has_client THEN "no_client"
                      ELSE "none"
           call == [IdleCall EXCEPT !.op = "chat", !.known = embed_obtained, !.outcome = outcome]
       IN IF outcome = "none" THEN EntersRetry(c, call, elapsed) ELSE ReturnsEarly(c, call)
    /\ UNCHANGED <<provider_settings, embed_cache, sem_free, embed_obtained>>
    /\ UNCHANGED otherThanProvider

\* vision is called and runs to its first await
VisionCalled(c, elapsed) ==
    /\ provider_calls[c].pc = "idle"
    /\ LET outcome == IF ~provider_settings.vision_enabled THEN "disabled"
                      ELSE IF ~provider_settings.has_client THEN "no_client"
                      ELSE "none"
           call == [IdleCall EXCEPT !.op = "vision", !.known = embed_obtained, !.outcome = outcome]
       IN IF outcome = "none" THEN EntersRetry(c, call, elapsed) ELSE ReturnsEarly(c, call)
    /\ UNCHANGED <<provider_settings, embed_cache, sem_free, embed_obtained>>
    /\ UNCHANGED otherThanProvider

\* a variant of the semaphore that lets every caller in
PermitAlways(free) == TRUE

\* asyncio.Semaphore.acquire returns only when a permit is left
PermitFree(free) == free > 0

\* a variant of the exit of "async with" that keeps the permit
ReleasedNot(free) == free

\* the exit of "async with self._sem", on return and on exception alike
Released(free) == free + 1

\* _run_with_retry enters "async with self._sem"
SemAcquired(c) ==
    /\ provider_calls[c].pc = "waiting"
    /\ PermitFree(sem_free)
    /\ sem_free' = sem_free - 1
    /\ provider_calls' = [provider_calls EXCEPT ![c].pc = "ready"]
    /\ UNCHANGED <<provider_settings, embed_cache, embed_obtained, provider_bucket, tokens_granted>>
    /\ UNCHANGED otherThanProvider

\* while attempt < retry_attempts: fn() invokes the client
ClientInvoked(c) ==
    /\ provider_calls[c].pc = "ready"
    /\ provider_calls[c].attempt < provider_settings.retry_attempts
    /\ provider_calls' =
          [provider_calls EXCEPT ![c].pc = "in_flight",
                                 ![c].sent = Append(@, provider_calls[c].to_fetch)]
    /\ UNCHANGED <<provider_settings, embed_cache, sem_free, embed_obtained, provider_bucket, tokens_granted>>
    /\ UNCHANGED otherThanProvider

\* the attempt raises (or its result cannot be serialised): attempt += 1 and
\* the backoff sleep
AttemptFails(c) ==
    /\ provider_calls[c].pc = "in_flight"
    /\ provider_calls' = [provider_calls EXCEPT ![c].pc = "ready", ![c].attempt = @ + 1]
    /\ UNCHANGED <<provider_settings, embed_cache, sem_free, embed_obtained, provider_bucket, tokens_granted>>
    /\ UNCHANGED otherThanProvider

\* the loop ends with every attempt failed: _run_with_retry returns the error
\* dict, which embed reads as a response without data
AttemptsExhausted(c) ==
    /\ provider_calls[c].pc = "ready"
    /\ provider_calls[c].attempt >= provider_settings.retry_attempts
    /\ sem_free' = Released(sem_free)
    /\ provider_calls' =
          [provider_calls EXCEPT ![c].pc = "done",
                                 ![c].obtained = embed_obtained,
                                 ![c].outcome = IF provider_calls[c].op = "embed"
                                                THEN "returned" ELSE "error_dict"]
    /\ UNCHANGED <<provider_settings, embed_cache, embed_obtained, provider_bucket, tokens_granted>>
    /\ UNCHANGED otherThanProvider

\* the chat or vision attempt succeeds: the call returns the result
ChatReturns(c) ==
    /\ provider_calls[c].pc = "in_flight"
    /\ provider_calls[c].op \in {"chat", "vision"}
    /\ sem_free' = Released(sem_free)
    /\ provider_calls' = [provider_calls EXCEPT ![c].pc = "done", ![c].outcome = "returned"]
    /\ UNCHANGED <<provider_settings, embed_cache, embed_obtained, provider_bucket, tokens_granted>>
    /\ UNCHANGED otherThanProvider

\* for original, item in zip(to_fetch, data): a vector is stored under the
\* digest of its text
RECURSIVE CacheAfter(_, _, _)
CacheAfter(cache, to_fetch, data) ==
    IF to_fetch = <<>> \/ data = <<>> THEN cache
    ELSE CacheAfter(IF Head(data) # NoVector
                    THEN (_hash_text(Head(to_fetch)) :> Head(data)) @@ cache
                    ELSE cache,
                    Tail(to_fetch), Tail(data))

\* the same loop, on the record of the vectors obtained per text
RECURSIVE ObtainedAfter(_, _, _)
ObtainedAfter(obtained, to_fetch, data) ==
    IF to_fetch = <<>> \/ data = <<>> THEN obtained
    ELSE ObtainedAfter(IF Head(data) # NoVector
                       THEN [obtained EXCEPT ![Head(to_fetch)] = <<Head(data)>>]
                       ELSE obtained,
                       Tail(to_fetch), Tail(data))

\* the embed attempt succeeds with a dict: the vectors are cached and
\* appended to the results
EmbedReturns(c, data) ==
    /\ provider_calls[c].pc = "in_flight"
    /\ provider_calls[c].op = "embed"
    /\ LET to_fetch == provider_calls[c].to_fetch
           paired == SubSeq(data, 1, IF Len(data) < Len(to_fetch) THEN Len(data) ELSE Len(to_fetch))
           IsVector(vec) == vec # NoVector
       IN /\ embed_cache' = CacheAfter(embed_cache, to_fetch, data)
          /\ embed_obtained' = ObtainedAfter(embed_obtained, to_fetch, data)
          /\ provider_calls' =
                [provider_calls EXCEPT ![c].pc = "done", ![c].outcome = "returned",
                                       ![c].obtained = ObtainedAfter(embed_obtained, to_fetch, data),
                                       ![c].results = @ \o SelectSeq(paired, IsVector)]
    /\ sem_free' = Released(sem_free)
    /\ UNCHANGED <<provider_settings, provider_bucket, tokens_granted>>
    /\ UNCHANGED otherThanProvider

\* the task running the call is cancelled at one of its awaits:
\* CancelledError is not an Exception, so it leaves the retry loop, and
\* "async with" releases the permit when the call holds one
Cancelled(c) ==
    /\ provider_calls[c].pc \in {"waiting", "ready", "in_flight"}
    /\ provider_calls[c].pc = "ready" => provider_calls[c].attempt > 0
    /\ sem_free' = IF provider_calls[c].pc = "waiting" THEN sem_free ELSE Released(sem_free)
    /\ provider_calls' = [provider_calls EXCEPT ![c].pc = "done", ![c].outcome = "cancelled"]
    /\ UNCHANGED <<provider_settings, embed_cache, embed_obtained, provider_bucket, tokens_granted>>
    /\ UNCHANGED otherThanProvider

\* the embed attempt succeeds with an SDK object, which has no get():
\* fetched.get("data") raises AttributeError out of embed
EmbedRaises(c) ==
    /\ provider_calls[c].pc = "in_flight"
    /\ provider_calls[c].op = "embed"
    /\ sem_free' = Released(sem_free)
    /\ provider_calls' = [provider_calls EXCEPT ![c].pc = "done", ![c].outcome = "raised"]
    /\ UNCHANGED <<provider_settings, embed_cache, embed_obtained, provider_bucket, tokens_granted>>
    /\ UNCHANGED otherThanProvider

NextProvider ==
    \E c \in ProviderCalls :
        \/ \E texts \in EmbedTextLists, elapsed \in 0..MaxElapsed : EmbedCalled(c, texts, elapsed)
        \/ \E elapsed \in 0..MaxElapsed : ChatCalled(c, elapsed)
        \/ \E elapsed \in 0..MaxElapsed : VisionCalled(c, elapsed)
        \/ SemAcquired(c)
        \/ ClientInvoked(c)
        \/ AttemptFails(c)
        \/ AttemptsExhausted(c)
        \/ ChatReturns(c)
        \/ \E data \in ResponseData(Len(provider_calls[c].to_fetch)) : EmbedReturns(c, data)
        \/ EmbedRaises(c)
        \/ Cancelled(c)

ProviderInit ==
    InitProvider /\ LifecycleOff /\ DedupeOff /\ SynthOff /\ TruncateOff /\ BuildOff /\ ContextOff /\ PillarOff /\ PracticeOff /\ PhraseOff /\ SectionsOff /\ BucketOff /\ FilterOff /\ ProgressOff

SpecProvider == ProviderInit /\ [][NextProvider]_vars

\* the embed calls made on a provider that does not short-circuit them
EmbedCallsMade ==
    {c \in ProviderCalls :
        /\ provider_calls[c].op = "embed"
        /\ provider_settings.embeddings_enabled
        /\ provider_settings.has_client}

\* the texts of a call for which no vector had been obtained when it was made
UnknownTexts(call) ==
    LET IsUnknown(t) == call.known[t] = <<>> IN SelectSeq(call.texts, IsUnknown)

\* C18: an embed call made after a vector was obtained for a text never sends
\* that text to the client: every request of a call carries exactly the texts
\* without a vector at the time of the call, and a call whose texts all have
\* one makes no request and returns the vectors obtained before.
C18_CachedTextsNotResent ==
    \A c \in EmbedCallsMade :
        LET call == provider_calls[c] IN
        /\ \A k \in 1..Len(call.sent) : call.sent[k] = UnknownTexts(call)
        /\ UnknownTexts(call) = <<>> =>
              /\ call.sent = <<>>
              /\ call.pc = "done"
              /\ call.results = [i \in 1..Len(call.texts) |-> call.known[call.texts[i]][1]]

\* a call of texts A and B made when only A had a vector has sent one request,
\* of B alone, and returned two vectors; the other call finds both cached
C18_Witness ==
    /\ \E c \in EmbedCallsMade :
          LET call == provider_calls[c] IN
          /\ call.texts = <<"A", "B">>
          /\ call.known["A"] # <<>>
          /\ call.known["B"] = <<>>
          /\ call.sent = <<(<<"B">>)>>
          /\ call.pc = "done"
          /\ Len(call.results) = 2
    /\ \E c \in EmbedCallsMade :
          LET call == provider_calls[c] IN
          /\ call.texts = <<"A">>
          /\ call.outcome = "returned"
          /\ call.sent # <<>>

\* C19: under any interleaving of embed calls, an entry of the cache is never
\* overwritten with a different vector and never removed.
C19_CacheWriteOnce ==
    [][\A h \in DOMAIN embed_cache :
          h \in DOMAIN embed_cache' /\ embed_cache'[h] = embed_cache[h]]_vars

\* the chat calls that ran the retry loop to its end with every attempt failed
ChatCallsAllFailed ==
    {c \in ProviderCalls :
        /\ provider_calls[c].op = "chat"
        /\ provider_calls[c].pc = "done"
        /\ provider_calls[c].outcome \notin {"disabled", "no_client", "cancelled"}
        /\ provider_calls[c].attempt = Len(provider_calls[c].sent)}

\* C20: when every attempt of a chat request fails, the client was invoked
\* exactly retry_attempts times and chat raises the error to its caller.
C20_ChatExhaustedRaises ==
    \A c \in ChatCallsAllFailed :
        /\ Len(provider_calls[c].sent) = provider_settings.retry_attempts
        /\ provider_calls[c].outcome = "raised"

\* the calls whose client call has been started at least once
StartedCalls == {c \in ProviderCalls : provider_calls[c].sent # <<>>}

\* C22: a request reaches the client call only after it has consumed a token
\* of the bucket, so the requests that started a client call never outnumber
\* the tokens the bucket granted.
C22_ClientCallNeedsToken ==
    /\ \A c \in StartedCalls : provider_calls[c].has_token
    /\ Cardinality(StartedCalls) <= tokens_granted

\* the calls whose client call is running
InFlightCalls == {c \in ProviderCalls : provider_calls[c].pc = "in_flight"}

\* C21: the client calls in flight through one provider, chat, vision and
\* embed together and retries included, never outnumber
\* settings.max_concurrent_requests.
C21_InFlightWithinLimit ==
    Cardinality(InFlightCalls) <= provider_settings.max_concurrent_requests

\* with a limit of one, a retried client call is in flight while the other
\* call, of another operation, waits for the permit
C21_Witness ==
    /\ provider_settings.max_concurrent_requests = 1
    /\ \E c, d \in ProviderCalls :
          /\ provider_calls[c].pc = "in_flight"
          /\ provider_calls[c].attempt > 0
          /\ provider_calls[d].pc = "waiting"
          /\ provider_calls[d].op # provider_calls[c].op
          /\ sem_free = 0

\* the embed calls that returned a list to their caller
EmbedCallsReturned ==
    {c \in EmbedCallsMade : provider_calls[c].pc = "done" /\ provider_calls[c].outcome = "returned"}

\* C24: embed(texts) returns exactly one vector per input text, and the
\* vector at position i is the vector of texts[i], whatever mix of cached and
\* uncached texts the call is given.
C24_OneVectorPerTextInOrder ==
    \A c \in EmbedCallsReturned :
        LET call == provider_calls[c] IN
        /\ Len(call.results) = Len(call.texts)
        /\ \A i \in 1..Len(call.texts) : call.obtained[call.texts[i]] = <<call.results[i]>>

\* a call of texts A and B that found B cached returned two vectors, the
\* vector of B first
EmbedReturnedCachedFirst ==
    \E c \in EmbedCallsReturned :
        LET call == provider_calls[c] IN
        /\ call.texts = <<"A", "B">>
        /\ call.sent = <<(<<"A">>)>>
        /\ Len(call.results) = 2
        /\ call.results[1] # call.results[2]
        /\ call.obtained["B"] = <<call.results[1]>>
        /\ call.obtained["A"] = <<call.results[2]>>

\* a step of one call that the event loop takes once it can: the semaphore
\* hands out a free permit, the retry loop goes on after the backoff sleep,
\* and a client call that was started ends, by a result or by an exception
Advances(c) ==
    \/ SemAcquired(c)
    \/ ClientInvoked(c)
    \/ AttemptFails(c)
    \/ AttemptsExhausted(c)
    \/ ChatReturns(c)
    \/ \E data \in ResponseData(Len(provider_calls[c].to_fetch)) : EmbedReturns(c, data)
    \/ EmbedRaises(c)

\* the requests of the provider without what the retry loop does not look
\* at: one text per embed call, and calls made in one burst, with no time
\* for the bucket to refill
NextRetry ==
    \E c \in ProviderCalls :
        \/ EmbedCalled(c, <<"A">>, 0)
        \/ ChatCalled(c, 0)
        \/ VisionCalled(c, 0)
        \/ Advances(c)
        \/ Cancelled(c)

\* the provider with an event loop that runs every call that can run and a
\* client whose calls all end
SpecProviderFair ==
    ProviderInit /\ [][NextRetry]_vars /\ \A c \in ProviderCalls : WF_vars(Advances(c))

\* the calls inside "async with self._sem"
PermitHolders == {c \in ProviderCalls : provider_calls[c].pc \in {"ready", "in_flight"}}

\* the calls that entered _run_with_retry and have not left it
RunningCalls == {c \in ProviderCalls : provider_calls[c].pc \in {"waiting", "ready", "in_flight"}}

\* what holds of the retry loop in every state: at most retry_attempts
\* client calls per request; every client call but the last one failed, and
\* a call that did not fail ends the request; the loop gives up only after
\* retry_attempts failures; every permit is accounted for by a call inside
\* the semaphore
RetryLoopBounded ==
    /\ \A c \in ProviderCalls :
          LET call == provider_calls[c] IN
          /\ Len(call.sent) <= provider_settings.retry_attempts
          /\ call.attempt <= Len(call.sent)
          /\ Len(call.sent) <= call.attempt + 1
          /\ Len(call.sent) = call.attempt + 1 => call.pc \in {"in_flight", "done"}
          /\ call.pc = "done" /\ call.outcome = "returned"
                /\ call.attempt = Len(call.sent) /\ call.to_fetch # <<>> =>
                   call.attempt = provider_settings.retry_attempts
          /\ call.outcome = "error_dict" =>
                call.attempt = provider_settings.retry_attempts /\ call.attempt = Len(call.sent)
    /\ sem_free + Cardinality(PermitHolders) = provider_settings.max_concurrent_requests
    /\ PermitHolders = {} => sem_free = provider_settings.max_concurrent_requests

ConflictTypeRank(type) ==
    CASE type = "cost_vs_reliability" -> 1
      [] type = "security_vs_performance" -> 2
      [] type = "operational_enabler" -> 3

\* C27: the list detect_cross_pillar_conflicts returns holds each conflict
\* type at most once, however many recommendations match its keywords, with
\* the types in the order cost_vs_reliability, security_vs_performance,
\* operational_enabler.
C27_ConflictTypesOnceInOrder ==
    \A i, j \in 1..Len(synth_conflicts) :
        i < j => ConflictTypeRank(synth_conflicts[i].type) < ConflictTypeRank(synth_conflicts[j].type)

\* two outcomes of compute_pillar_scores are the same: both raise, or both
\* return the same practice scores and the same percent
SameOutcome(r, s) == r.raised = s.raised /\ (~r.raised => r = s)

\* C28: on the same pillar definition and the same text, compute_pillar_scores
\* of backend/utils/scoring/scoring.py and of src/utils/scoring/scoring.py
\* both raise or both return equal results.
C28_ScoringModulesAgree ==
    pillar_pc # "called" =>
        SameOutcome(compute_pillar_scores("src", pillar_data, architecture_text),
                    compute_pillar_scores("backend", pillar_data, architecture_text))

(***************************************************************************)
(* BasePillarAgent._filter_legacy_sections.  A text is a sequence of       *)
(* characters; "R" stands for the words Raw LLM Analysis (in either of the *)
(* two spellings the code looks for) and "=" for a corpus section marker   *)
(* such as === ARCHITECTURE NARRATIVE ===.                                 *)
(***************************************************************************)
CorpusChars == {"R", "=", "x", " ", "\n"}

RECURSIVE CorpusTextsOfLen(_)
CorpusTextsOfLen(n) ==
    IF n = 0 THEN {<<>>}
    ELSE {Append(t, c) : t \in CorpusTextsOfLen(n - 1), c \in CorpusChars}

CorpusTexts == UNION {CorpusTextsOfLen(n) : n \in 0..MaxCorpusLen}

\* values of the environment variable ENABLE_LEGACY_SECTIONS
EnableLegacyValues == {<<>>, <<"1">>, <<"TRUE">>, <<"Yes">>, <<"on">>, <<"false">>}

\* value.lower() of these values
LowerValue(value) ==
    CASE value = "TRUE" -> "true"
      [] value = "Yes" -> "yes"
      [] OTHER -> value

\* os.getenv("ENABLE_LEGACY_SECTIONS", "false").lower() in ("1", "true", "yes")
LegacyEnabled(env) ==
    LowerValue(IF env = <<>> THEN "false" ELSE env[1]) \in {"1", "true", "yes"}

\* text.splitlines(), for texts whose only line break is "\n": the line
\* after the last break is listed when it is not empty
RECURSIVE SplitLinesFrom(_, _, _)
SplitLinesFrom(text, current, lines) ==
    IF text = <<>> THEN IF current = <<>> THEN lines ELSE Append(lines, current)
    ELSE IF Head(text) = "\n" THEN SplitLinesFrom(Tail(text), <<>>, Append(lines, current))
    ELSE SplitLinesFrom(Tail(text), Append(current, Head(text)), lines)

SplitLines(text) == SplitLinesFrom(text, <<>>, <<>>)

\* "Raw LLM Analysis" in line or "RAW LLM ANALYSIS" in line
HasLegacyHeading(line) == \E i \in 1..Len(line) : line[i] = "R"

\* not line.strip()
IsBlankLine(line) == \A i \in 1..Len(line) : IsSpace(line[i])

\* the loop over the lines: filtered_lines, with skip carried from line to line
RECURSIVE FilterLines(_, _)
FilterLines(lines, skip) ==
    IF lines = <<>> THEN <<>>
    ELSE LET line == Head(lines)
             skipping == skip \/ HasLegacyHeading(line)
         IN IF skipping
            THEN FilterLines(Tail(lines), ~IsBlankLine(line))
            ELSE <<line>> \o FilterLines(Tail(lines), FALSE)

\* _filter_legacy_sections(text) under the environment value env
_filter_legacy_sections(env, text) ==
    IF LegacyEnabled(env) THEN text
    ELSE Join(FilterLines(SplitLines(text), FALSE), "\n")

InitFilter ==
    /\ filter_pc = "called"
    /\ enable_legacy \in EnableLegacyValues
    /\ corpus_text \in CorpusTexts
    /\ filtered_text = <<>>

\* the call returns
FilterReturns ==
    /\ filter_pc = "called"
    /\ filtered_text' = _filter_legacy_sections(enable_legacy, corpus_text)
    /\ filter_pc' = "returned"
    /\ UNCHANGED <<enable_legacy, corpus_text>>
    /\ UNCHANGED otherThanFilter

NextFilter == FilterReturns

FilterInit ==
    InitFilter /\ LifecycleOff /\ DedupeOff /\ SynthOff /\ TruncateOff /\ BuildOff /\ ContextOff /\ PillarOff /\ PracticeOff /\ PhraseOff /\ SectionsOff /\ ProviderOff /\ BucketOff /\ ProgressOff

SpecFilter == FilterInit /\ [][NextFilter]_vars

\* line k lies in a legacy block: a line with the heading stands at or before
\* it with no blank line in between
InLegacyBlock(lines, k) ==
    \E i \in 1..k :
        /\ HasLegacyHeading(lines[i])
        /\ \A j \in i..(k - 1) : ~IsBlankLine(lines[j])

\* the lines from the k-th on that lie in no legacy block, in order
RECURSIVE LinesOutsideBlocks(_, _)
LinesOutsideBlocks(lines, k) ==
    IF k > Len(lines) THEN <<>>
    ELSE (IF InLegacyBlock(lines, k) THEN <<>> ELSE <<lines[k]>>)
         \o LinesOutsideBlocks(lines, k + 1)

\* a corpus section marker line
IsSectionMarker(line) == line # <<>> /\ line[1] = "=" /\ ~HasLegacyHeading(line)

\* with the toggle on the text comes back unchanged; with it off exactly the
\* lines of the legacy blocks are gone and the others are joined in order
FilterRemovesLegacyBlocks ==
    filter_pc = "returned" =>
        IF LegacyEnabled(enable_legacy) THEN filtered_text = corpus_text
        ELSE filtered_text = Join(LinesOutsideBlocks(SplitLines(corpus_text), 1), "\n")

\* C29: with ENABLE_LEGACY_SECTIONS off, _filter_legacy_sections removes
\* exactly the legacy blocks (a line with the heading and the lines after it
\* up to and including the next blank line) and keeps every other line in
\* order, every corpus section marker line among them; with the toggle on
\* it returns the text unchanged.
C29_FilterKeepsAllButLegacy ==
    /\ FilterRemovesLegacyBlocks
    /\ filter_pc = "returned" /\ ~LegacyEnabled(enable_legacy) =>
          SelectSeq(SplitLines(filtered_text), IsSectionMarker)
              = SelectSeq(SplitLines(corpus_text), IsSectionMarker)

(***************************************************************************)
(* The progress API: _get_phase_tasks, _calculate_dynamic_progress and     *)
(* get_enhanced_progress.  Weights are in hundredths (0.05 is 5, 0.12 is   *)
(* 12) and weighted progress in ten-thousandths; on the snapshots used     *)
(* here the floats of the code give the same integers.                     *)
(***************************************************************************)
\* pillar_names of _get_phase_tasks
SubtaskPillars == <<RELIABILITY, SECURITY, COST, OPERATIONAL, PERFORMANCE>>

SubtaskPillarSet == {SubtaskPillars[k] : k \in 1..Len(SubtaskPillars)}

\* phase_definitions: id, name, start_pct, end_pct
phase_definitions ==
    <<[id |-> "initialization", name |-> "Initialization", start_pct |-> 0, end_pct |-> 5],
      [id |-> "document_processing", name |-> "Document Processing", start_pct |-> 5, end_pct |-> 15],
      [id |-> "corpus_assembly", name |-> "Corpus Assembly", start_pct |-> 15, end_pct |-> 20],
      [id |-> "pillar_evaluation", name |-> "Pillar Evaluation", start_pct |-> 20, end_pct |-> 80],
      [id |-> "cross_pillar_alignment", name |-> "Cross-Pillar Alignment", start_pct |-> 80, end_pct |-> 90],
      [id |-> "synthesis", name |-> "Synthesis", start_pct |-> 90, end_pct |-> 95],
      [id |-> "finalization", name |-> "Finalization", start_pct |-> 95, end_pct |-> 100]>>

\* weight of a pillar subtask, 0.12
SubtaskWeight == 12

\* first and last progress at which the pillar subtasks are listed
SubtasksFrom == 20
SubtasksTo == 80

\* int(((progress - start_pct) / (end_pct - start_pct)) * 100)
PercentWithin(progress, def) ==
    ((progress - def.start_pct) * 100) \div (def.end_pct - def.start_pct)

\* phase_name.lower() in current_phase.lower(), for a current_phase that is
\* empty or the name of a phase
NamedCurrent(def, current_phase) == current_phase # "" /\ def.name = current_phase

\* the PhaseTask of one phase definition: status, progress and weight
PhaseTaskOf(def, progress, current_phase) ==
    LET weight == IF def.id = "pillar_evaluation" THEN 0 ELSE def.end_pct - def.start_pct
        within == PercentWithin(progress, def)
    IN IF progress >= def.end_pct
       THEN [id |-> def.id, status |-> "completed", progress |-> 100, weight |-> weight]
       ELSE IF progress >= def.start_pct
       THEN IF NamedCurrent(def, current_phase)
            THEN [id |-> def.id, status |-> "active", progress |-> within, weight |-> weight]
            ELSE [id |-> def.id,
                  status |-> IF progress > def.start_pct THEN "active" ELSE "pending",
                  progress |-> IF within > 100 THEN 100 ELSE IF within < 0 THEN 0 ELSE within,
                  weight |-> weight]
       ELSE [id |-> def.id, status |-> "pending", progress |-> 0, weight |-> weight]

\* the PhaseTask of one pillar subtask
SubtaskOf(pillar_name, pillar_status, pillar_prog) ==
    [id |-> pillar_name,
     status |-> CASE pillar_status = "completed" -> "completed"
                  [] pillar_status = "analyzing" -> "active"
                  [] pillar_status = "failed" -> "failed"
                  [] OTHER -> "pending",
     progress |-> CASE pillar_status = "completed" -> 100
                    [] pillar_status = "analyzing" -> pillar_prog
                    [] OTHER -> 0,
     weight |-> SubtaskWeight]

\* _get_phase_tasks: [phases, subtasks]
_get_phase_tasks(a) ==
    [phases |-> [k \in 1..Len(phase_definitions) |->
                    PhaseTaskOf(phase_definitions[k], a.progress, a.current_phase)],
     subtasks |-> IF SubtasksFrom <= a.progress /\ a.progress <= SubtasksTo
                  THEN [k \in 1..Len(SubtaskPillars) |->
                           SubtaskOf(SubtaskPillars[k], a.pillar_statuses[SubtaskPillars[k]],
                                     a.pillar_progress[SubtaskPillars[k]])]
                  ELSE <<>>]

\* what a task adds to completed_weight, in ten-thousandths
CompletedWeightOf(task) ==
    IF task.status = "completed" THEN task.weight * 100
    ELSE IF task.status = "active" THEN task.weight * task.progress
    ELSE 0

\* _calculate_dynamic_progress
_calculate_dynamic_progress(phases, subtasks) ==
    LET tasks == phases \o subtasks
        total_weight == SumOver([k \in 1..Len(tasks) |-> tasks[k].weight * 100], Len(tasks))
        completed_weight == SumOver([k \in 1..Len(tasks) |-> CompletedWeightOf(tasks[k])], Len(tasks))
        percent == IF total_weight = 0 THEN 0 ELSE (completed_weight * 100) \div total_weight
    IN IF percent > 100 THEN 100 ELSE percent

\* overall_progress of the response for a stored assessment
OverallProgress(a) ==
    _calculate_dynamic_progress(_get_phase_tasks(a).phases, _get_phase_tasks(a).subtasks)

\* an assessment as it is created: nothing done yet
NewAssessment ==
    [progress |-> 0, current_phase |-> "",
     pillar_statuses |-> [n \in SubtaskPillarSet |-> "pending"],
     pillar_progress |-> [n \in SubtaskPillarSet |-> 0]]

\* progress a pillar agent reports while it is analyzing
PillarProgressReports == {0, 50}

\* the phase the orchestrator may name as current at a progress: none, or
\* the phase whose range holds the progress
CurrentPhaseOptions(progress) ==
    {""} \cup {phase_definitions[k].name : k \in
                  {j \in 1..Len(phase_definitions) :
                      /\ phase_definitions[j].start_pct <= progress
                      /\ progress < phase_definitions[j].end_pct}}

PhaseNames == {phase_definitions[k].name : k \in 1..Len(phase_definitions)}

InitProgress ==
    /\ mongo_db = FALSE
    /\ assessment = NewAssessment
    /\ progress_response = <<>>

\* the run stores a larger progress, and the phase it is in
ProgressAdvances(step, phase) ==
    /\ assessment.progress + step <= 100
    /\ phase \in CurrentPhaseOptions(assessment.progress + step)
    /\ assessment' = [assessment EXCEPT !.progress = @ + step, !.current_phase = phase]
    /\ UNCHANGED <<mongo_db, progress_response>>
    /\ UNCHANGED otherThanProgress

\* a pillar agent starts: pending -> analyzing
SubtaskStarts(n) ==
    /\ assessment.pillar_statuses[n] = "pending"
    /\ assessment' = [assessment EXCEPT !.pillar_statuses[n] = "analyzing"]
    /\ UNCHANGED <<mongo_db, progress_response>>
    /\ UNCHANGED otherThanProgress

\* an analyzing pillar reports more progress
SubtaskReports(n, percent) ==
    /\ assessment.pillar_statuses[n] = "analyzing"
    /\ percent > assessment.pillar_progress[n]
    /\ assessment' = [assessment EXCEPT !.pillar_progress[n] = percent]
    /\ UNCHANGED <<mongo_db, progress_response>>
    /\ UNCHANGED otherThanProgress

\* a pillar agent ends: analyzing -> completed, its progress 100
SubtaskCompletes(n) ==
    /\ assessment.pillar_statuses[n] = "analyzing"
    /\ assessment' = [assessment EXCEPT !.pillar_statuses[n] = "completed",
                                        !.pillar_progress[n] = 100]
    /\ UNCHANGED <<mongo_db, progress_response>>
    /\ UNCHANGED otherThanProgress

NextProgress ==
    \/ \E step \in 1..MaxAdvance, phase \in {""} \cup PhaseNames : ProgressAdvances(step, phase)
    \/ \E n \in SubtaskPillarSet : SubtaskStarts(n)
    \/ \E n \in SubtaskPillarSet, percent \in PillarProgressReports : SubtaskReports(n, percent)
    \/ \E n \in SubtaskPillarSet : SubtaskCompletes(n)

ProgressInit ==
    InitProgress /\ LifecycleOff /\ DedupeOff /\ SynthOff /\ TruncateOff /\ BuildOff /\ ContextOff /\ PillarOff /\ PracticeOff /\ PhraseOff /\ SectionsOff /\ ProviderOff /\ BucketOff /\ FilterOff

SpecProgress == ProgressInit /\ [][NextProgress]_vars

\* the reported progress lies in 0..100 and is 100 when the stored progress is
ProgressInRange ==
    /\ OverallProgress(assessment) \in 0..100
    /\ assessment.progress = 100 => OverallProgress(assessment) = 100

\* C25: along a run in which the stored progress advances and the pillar
\* statuses only move forward, the overall_progress computed from the later
\* snapshot is never below the one computed from the earlier snapshot; it
\* lies within 0..100 and is 100 when the stored progress is 100.
C25_OverallProgressMonotone ==
    /\ []ProgressInRange
    /\ [][OverallProgress(assessment') >= OverallProgress(assessment)]_vars

\* the id under which the assessment is stored, and an id that is not stored
StoredId == "a1"

RequestedIds == {StoredId, "a2"}

\* HTTPException(status_code, detail)
HTTPException(status_code, detail) == [status_code |-> status_code, detail |-> detail]

\* the storage in either mode holds one assessment, at some point of its run
InitLookup ==
    /\ mongo_db \in BOOLEAN
    /\ \E progress \in 0..100, phase \in {""} \cup PhaseNames :
          /\ phase \in CurrentPhaseOptions(progress)
          /\ assessment = [NewAssessment EXCEPT !.progress = progress, !.current_phase = phase]
    /\ progress_response = <<>>

\* the body of the try block: find_one raises, or it returns None and the
\* 404 is raised, or the assessment is found; <<>> when nothing is raised
TryFindOne(assessment_id, lookup_raises) ==
    IF lookup_raises THEN <<"find_one raised">>
    ELSE IF assessment_id # StoredId THEN <<HTTPException(404, "assessment not found")>>
    ELSE <<>>

\* what leaves the lookup of get_enhanced_progress: the exception raised,
\* or <<>>.  With MongoDB "except Exception" catches whatever the try block
\* raised, HTTPException included, and raises the 500 instead
Lookup(assessment_id, lookup_raises) ==
    IF mongo_db
    THEN IF Len(TryFindOne(assessment_id, lookup_raises)) > 0
         THEN [raised |-> <<HTTPException(500, "database error")>>]
         ELSE [raised |-> <<>>]
    ELSE IF assessment_id # StoredId
    THEN [raised |-> <<HTTPException(404, "assessment not found")>>]
    ELSE [raised |-> <<>>]

\* get_enhanced_progress(assessment_id): the answer, with the request it
\* answers
GetEnhancedProgress(assessment_id, lookup_raises) ==
    /\ progress_response = <<>>
    /\ mongo_db \/ ~lookup_raises
    /\ LET found == Lookup(assessment_id, lookup_raises)
       IN progress_response' =
             <<[assessment_id |-> assessment_id, lookup_raised |-> lookup_raises,
                error |-> found.raised,
                overall_progress |-> IF found.raised = <<>>
                                     THEN <<OverallProgress(assessment)>> ELSE <<>>]>>
    /\ UNCHANGED <<mongo_db, assessment>>
    /\ UNCHANGED otherThanProgress

NextLookup ==
    \E assessment_id \in RequestedIds, lookup_raises \in BOOLEAN :
        GetEnhancedProgress(assessment_id, lookup_raises)

LookupInit ==
    InitLookup /\ LifecycleOff /\ DedupeOff /\ SynthOff /\ TruncateOff /\ BuildOff /\ ContextOff /\ PillarOff /\ PracticeOff /\ PhraseOff /\ SectionsOff /\ ProviderOff /\ BucketOff /\ FilterOff

SpecLookup == LookupInit /\ [][NextLookup]_vars

\* C30: a request for an id that is not stored is answered with 404
\* "assessment not found" in both storage modes, and 500 "database error" is
\* the answer only when the lookup in the database itself failed.
C30_UnknownIdIs404 ==
    progress_response # <<>> =>
        LET response == progress_response[1] IN
        /\ response.assessment_id # StoredId /\ ~response.lookup_raised =>
              response.error = <<HTTPException(404, "assessment not found")>>
        /\ response.error = <<HTTPException(500, "database error")>> => response.lookup_raised

====
